---- MODULE Spec2Model ----
(***************************************************************************)
(* Feedmaster: the background workers (ingestion, polling, aggregation,    *)
(* stats and achievements) and the tables they share.                      *)
(*                                                                         *)
(* Time is counted in ticks of 1.2 s (3000 ticks per hour), so that every  *)
(* threshold of the polling schedule (0.084 h, 0.167 h, 0.334 h, ...) and  *)
(* the 5 minutes of the ingestion worker are whole numbers.                *)
(***************************************************************************)
EXTENDS Integers, Sequences, FiniteSets, TLC

VARIABLES
    now,                     \* the wall clock, datetime.now(timezone.utc)
    users,                   \* table users (models.User)
    posts,                   \* table posts (models.Post)
    feed_posts,              \* table feed_posts (FeedPost membership)
    received,                \* messages the listeners have taken so far
    delivered,               \* the <<cid, feed_id>> pairs they carried
    post_batch_queue,        \* ingestion_worker.post_batch_queue
    post_current_batch,      \* post_batch_worker.current_batch
    feed_post_batch_queue,   \* ingestion_worker.feed_post_batch_queue
    feed_post_current_batch, \* feed_post_batch_worker.current_batch
    poll_pc,                 \* position of poll_and_update_posts
    poll_now,                \* its local `now`
    posts_to_poll,           \* its local list of loaded Post objects
    reported,                \* counts the metrics API reported last, per CID
    api_monotone,            \* the API never reported less than before
    request_failed,          \* the last metrics request ended in an exception
    last_answer,             \* what the metrics API answered in the last cycle
    poll_raised,             \* polling cycles that raised before their commit,
                             \* and the posts the last of them had selected
    late_cycles,             \* polling cycles that started late
    polling_config,          \* polling_worker.polling_config (in memory)
    config_last_modified_time, \* polling_worker.config_last_modified_time
    config_file,             \* contents of config/polling_config.json
    config_mtime,            \* modification time of that file
    config_event,            \* what the last load of the file met
    first_row,               \* per CID, the Post row as first written
    last_flush,              \* what the last post flush did
    listener_pc,             \* per feed, position of listen_to_contrails_feed
    listener_wait,           \* per feed, seconds of the sleep it is in
    listener_event,          \* per feed, what its listener met last
    last_upsert,             \* what the last upsert_users_batch did
    aggregates,              \* table aggregates (models.Aggregate)
    agg_pc,                  \* position of the aggregation cycle
    initially_prominent,     \* the prominent DIDs the cycle read at its start
    agg_writes,              \* the aggregates written by the last step
    last_cycle,              \* what the last aggregation cycle found
    evaluated,               \* the last call of a pure function: input, result
    refresh,                 \* periodic_did_refresh_scheduler: the DIDs whose
                             \* profile the network returns, the parity of the
                             \* cycles run, the placeholders of the last SELECT
    user_stats,              \* table user_stats (models.UserStats)
    user_achievements,       \* table user_achievements
    last_processed_timestamp,\* run_stats_worker's high-water mark
    stats_pc,                \* position of run_stats_worker in its cycle
    updated_dids,            \* its local updated_dids
    stats_cycles,            \* stats cycles completed so far
    award_failed             \* DIDs whose stats were committed by a cycle whose
                             \* award step failed, not evaluated since

vars == <<now, users, posts, feed_posts, received, delivered,
          post_batch_queue, post_current_batch,
          feed_post_batch_queue, feed_post_current_batch, poll_pc, poll_now,
          posts_to_poll, reported, api_monotone, request_failed, last_answer,
          poll_raised, late_cycles, polling_config, config_last_modified_time, config_file,
          config_mtime,
          config_event, first_row,
          last_flush, listener_pc, listener_wait, listener_event,
          last_upsert, aggregates, agg_pc, initially_prominent, agg_writes,
          last_cycle, evaluated, refresh,
          user_stats, user_achievements, last_processed_timestamp,
          stats_pc, updated_dids, stats_cycles, award_failed>>

listenVars == <<listener_pc, listener_wait, listener_event>>
ingestVars == <<received, delivered, post_batch_queue, post_current_batch, feed_post_batch_queue,
                feed_post_current_batch, first_row, last_flush, listenVars>>
configVars == <<polling_config, config_last_modified_time, config_file,
                config_mtime, config_event>>
pollVars == <<poll_pc, poll_now, posts_to_poll, reported, api_monotone,
              request_failed, last_answer, poll_raised, late_cycles, configVars>>
aggVars == <<aggregates, agg_pc, initially_prominent, agg_writes, last_cycle,
             evaluated, refresh>>
statsVars == <<user_stats, user_achievements, last_processed_timestamp,
               stats_pc, updated_dids, stats_cycles, award_failed>>

-----------------------------------------------------------------------------
(* Bounds of the model and constants of the program.                       *)

MaxSteps == 3           \* the clock makes at most this many steps
MaxMessages == 2        \* messages the listeners take in a run
MaxCycles == 2          \* aggregation cycles in a run
MaxPostCount == 51      \* posts of one user in one feed in the tier runs
MaxStatsCycles == 2     \* stats cycles in a run
MaxDay == 3              \* posting days are 0..MaxDay
MaxTags == 3             \* hashtags of one post
MaxPermille == 1100      \* largest rarity percentage tried, in tenths of 1%
MaxLateness == 10        \* ticks a poll runs before or after the hard stop
MaxPollHours == 4        \* the polling worker is followed for so many hours
MaxConfigWrites == 2     \* writes to the polling-config file
MaxPollRaises == 1       \* polling cycles that raise in a run
MaxLateCycles == 1       \* polling cycles that start late in a run
MaxRetireHours == 200    \* the polling worker is followed to the retirement for so many hours
MaxUpserts == 2         \* calls of upsert_users_batch by the profile refresh in a run
MaxBatch == 2           \* profiles in one call of upsert_users_batch
MaxQueue == 1           \* messages waiting in post_batch_queue
MaxFeedQueue == 0       \* links still waiting when a post flush starts
MaxCount == 1           \* largest count the API reports for one metric
BATCH_SIZE == 2         \* BATCH_SIZE of the ingestion worker (env, default 100)
POLLING_WORKER_BATCH_LIMIT == 1   \* env, default 200
GET_POSTS_BATCH_SIZE == 25
FiveMinutes == 250      \* timedelta(minutes=5), in ticks
TicksPerHour == 12 * FiveMinutes
TickStep == FiveMinutes \* the clock advances in steps of 5 minutes
MaxNow == MaxSteps * TickStep
Null == -1              \* SQL NULL / Python None in a time column

CIDs == {"c1", "c2"}
Feeds == {"A", "B"}
DIDs == {"a", "b", "c"}

\* The post records of the network: one record per CID.
RecordAuthor(cid) == IF cid \in {"c1", "c3"} THEN "a" ELSE "b"
RecordCreatedAt(cid) ==
    IF cid = "c1" THEN 0 ELSE IF cid = "c4" THEN FiveMinutes + 1 ELSE 250
RecordHasImage(cid) == cid = "c1"

Min(a, b) == IF a <= b THEN a ELSE b
Max(a, b) == IF a >= b THEN a ELSE b
Range(s) == {s[i] : i \in DOMAIN s}

-----------------------------------------------------------------------------
(* Handles.  A handle is either a real one or the placeholder             *)
(* unknown.<did-suffix>[.<random>].                                        *)

RealHandle(h) == [kind |-> "real", name |-> h, salt |-> 0]
UnknownHandle(did) == [kind |-> "unknown", name |-> did, salt |-> 0]
SaltedUnknownHandle(did, n) == [kind |-> "unknown", name |-> did, salt |-> n]
InvalidHandle == [kind |-> "invalid", name |-> "handle.invalid", salt |-> 0]
IsUnknown(h) == h.kind = "unknown"

\* crud.create_placeholder_users_batch: INSERT ... ON CONFLICT (did) DO NOTHING
CreatePlaceholderUsers(tbl, dids, t) ==
    tbl \cup { [did |-> d, handle |-> UnknownHandle(d), is_prominent |-> FALSE,
                last_updated |-> t]
               : d \in {x \in dids : \A u \in tbl : u.did # x} }

-----------------------------------------------------------------------------
(* crud.upsert_users_batch.  A profile is [did, handle, is_prominent]; the  *)
(* schema default of is_prominent is False.                                 *)

\* L79-84: one profile per DID, at the place of the DID's first occurrence,
\* with the data of its last occurrence.
RECURSIVE DedupUsersFrom(_, _)
DedupUsersFrom(us, i) ==
    IF i > Len(us) THEN <<>>
    ELSE LET isFirst == \A j \in 1..(i-1) : us[j].did # us[i].did
             last == CHOOSE k \in i..Len(us) :
                        /\ us[k].did = us[i].did
                        /\ \A m \in (k+1)..Len(us) : us[m].did # us[i].did
         IN (IF isFirst THEN <<us[last]>> ELSE <<>>) \o DedupUsersFrom(us, i+1)

\* L88-100: a missing or invalid handle becomes unknown.<did-suffix>; a
\* placeholder already seen in the batch gets a random suffix.
RECURSIVE SanitizeUsersFrom(_, _, _)
SanitizeUsersFrom(us, i, seen) ==
    IF i > Len(us) THEN <<>>
    ELSE LET u == us[i]
             h1 == IF u.handle.kind = "invalid" THEN UnknownHandle(u.did)
                   ELSE u.handle
             h2 == IF h1 \in seen /\ IsUnknown(h1)
                   THEN SaltedUnknownHandle(u.did, i) ELSE h1
         IN <<[u EXCEPT !.handle = h2]>>
            \o SanitizeUsersFrom(us, i+1, seen \cup {h2})

\* L104-112: the rows that hold a real handle of the batch under a DID that
\* is not in the batch.
ConflictingUsersInDb(tbl, final) ==
    LET handles_in_batch == {final[i].handle : i \in
                               {j \in DOMAIN final : ~IsUnknown(final[j].handle)}}
        dids_in_batch == {final[i].did : i \in DOMAIN final}
    IN {r \in tbl : r.handle \in handles_in_batch /\ r.did \notin dids_in_batch}

\* L114-125: those rows get the placeholder handle; committed on its own.
FreeHandles(tbl, final, t) ==
    LET old == ConflictingUsersInDb(tbl, final)
    IN (tbl \ old) \cup { [r EXCEPT !.handle = UnknownHandle(r.did),
                                    !.last_updated = t] : r \in old }

\* One row of INSERT ... ON CONFLICT (did) DO UPDATE.  The unique index on
\* handle is checked as the row is written.
HandleTaken(tbl, u) == \E r \in tbl : r.did # u.did /\ r.handle = u.handle

UpsertUserRow(tbl, u, t) ==
    LET row == [did |-> u.did, handle |-> u.handle,
                is_prominent |-> u.is_prominent, last_updated |-> t]
    IN {r \in tbl : r.did # u.did} \cup {row}

\* L149-180: the rows are written in the order of the batch; a unique
\* violation rolls the whole statement back.
RECURSIVE UpsertUserRowsFrom(_, _, _, _)
UpsertUserRowsFrom(tbl, final, i, t) ==
    IF i > Len(final) THEN [ok |-> TRUE, tbl |-> tbl]
    ELSE IF HandleTaken(tbl, final[i]) THEN [ok |-> FALSE, tbl |-> tbl]
    ELSE UpsertUserRowsFrom(UpsertUserRow(tbl, final[i], t), final, i+1, t)

UpsertUsersBatch(tbl, batch, t) ==
    IF batch = <<>> THEN [ok |-> TRUE, tbl |-> tbl, freed |-> {}]
    ELSE LET final == SanitizeUsersFrom(DedupUsersFrom(batch, 1), 1, {})
             freed == FreeHandles(tbl, final, t)
             main == UpsertUserRowsFrom(freed, final, 1, t)
         IN [ok |-> main.ok,
             tbl |-> IF main.ok THEN main.tbl ELSE freed,
             freed |-> {r.did : r \in ConflictingUsersInDb(tbl, final)}]

\* crud.get_stale_user_dids_from_list
StaleUserDids(tbl, dids, t) ==
    {r.did : r \in {x \in tbl : /\ x.did \in dids
                                /\ x.last_updated < t - 24 * TicksPerHour
                                /\ ~IsUnknown(x.handle)}}

-----------------------------------------------------------------------------
(* Ingestion: ingestion_worker.process_firehose_message, the two batch     *)
(* workers and the crud functions they call.                                *)

\* ingestion_worker.process_firehose_message, L206-428: the PostCreate built
\* from a message carrying the record of `cid`, received at time t.
PostCreate(cid, t) ==
    [cid |-> cid, author_did |-> RecordAuthor(cid),
     created_at |-> RecordCreatedAt(cid), has_image |-> RecordHasImage(cid),
     like_count |-> 0, repost_count |-> 0, reply_count |-> 0,
     engagement_score |-> 0, next_poll_at |-> t + FiveMinutes,
     is_active_for_polling |-> TRUE]

\* A listener that takes a record whatever its date.
AcceptsAnyCreatedAt(cid, t) == TRUE

\* L248-252 of process_firehose_message: a record dated more than 5 minutes
\* in the future is dropped.
AcceptsCreatedAt(cid, t) == RecordCreatedAt(cid) <= t + FiveMinutes

PostByCid(tbl, cid) == CHOOSE r \in tbl : r.cid = cid
HasCid(tbl, cid) == \E r \in tbl : r.cid = cid

\* An upsert that leaves a stored row as it is (ON CONFLICT DO NOTHING).
UpsertPostRowDoNothing(tbl, p, t) ==
    IF HasCid(tbl, p.cid) THEN tbl
    ELSE tbl \cup
         {[id |-> Cardinality(tbl) + 1, cid |-> p.cid,
           author_did |-> p.author_did, created_at |-> p.created_at,
           ingested_at |-> t, has_image |-> p.has_image,
           like_count |-> p.like_count, repost_count |-> p.repost_count,
           reply_count |-> p.reply_count,
           engagement_score |-> p.engagement_score,
           next_poll_at |-> p.next_poll_at,
           is_active_for_polling |-> p.is_active_for_polling]}

\* One row of crud.upsert_posts_batch: INSERT ... ON CONFLICT (cid) DO UPDATE.
\* created_at and author_did are not in set_.
UpsertPostRow(tbl, p, t) ==
    IF HasCid(tbl, p.cid)
    THEN LET old == PostByCid(tbl, p.cid)
         IN (tbl \ {old}) \cup
            {[old EXCEPT !.ingested_at = t, !.has_image = p.has_image,
                         !.like_count = p.like_count,
                         !.repost_count = p.repost_count,
                         !.reply_count = p.reply_count,
                         !.engagement_score = p.engagement_score,
                         !.next_poll_at = p.next_poll_at,
                         !.is_active_for_polling = p.is_active_for_polling]}
    ELSE tbl \cup
         {[id |-> Cardinality(tbl) + 1, cid |-> p.cid,
           author_did |-> p.author_did, created_at |-> p.created_at,
           ingested_at |-> t, has_image |-> p.has_image,
           like_count |-> p.like_count, repost_count |-> p.repost_count,
           reply_count |-> p.reply_count,
           engagement_score |-> p.engagement_score,
           next_poll_at |-> p.next_poll_at,
           is_active_for_polling |-> p.is_active_for_polling]}

RECURSIVE UpsertPostRowsFrom(_, _, _, _)
UpsertPostRowsFrom(tbl, ps, i, t) ==
    IF i > Len(ps) THEN tbl
    ELSE UpsertPostRowsFrom(UpsertPostRow(tbl, ps[i], t), ps, i + 1, t)

\* crud.upsert_posts_batch.  One statement for the whole list: PostgreSQL
\* refuses an ON CONFLICT DO UPDATE that would touch a row twice, and the
\* except branch then rolls back and returns [].
upsert_posts_batch(tbl, ps, t) ==
    IF \E i, j \in DOMAIN ps : i # j /\ ps[i].cid = ps[j].cid
    THEN [ok |-> FALSE, tbl |-> tbl]
    ELSE [ok |-> TRUE, tbl |-> UpsertPostRowsFrom(tbl, ps, 1, t)]

\* A flush that upserts every queue item as it came.
UniquePostsNoDedup(batch) ==
    [i \in DOMAIN batch |-> [post |-> batch[i].post,
                             feed_ids |-> <<batch[i].feed_id>>]]

\* _flush_post_batch, step 1: one entry per CID, in the order of first
\* occurrence, with the schema of the first occurrence and every feed_id.
RECURSIVE UniquePostsWithFeedsFrom(_, _)
UniquePostsWithFeedsFrom(batch, i) ==
    IF i > Len(batch) THEN <<>>
    ELSE LET cid == batch[i].post.cid
             isFirst == \A j \in 1..(i-1) : batch[j].post.cid # cid
             same == SelectSeq(batch, LAMBDA e : e.post.cid = cid)
         IN (IF isFirst
             THEN <<[post |-> batch[i].post,
                     feed_ids |-> [k \in DOMAIN same |-> same[k].feed_id]]>>
             ELSE <<>>) \o UniquePostsWithFeedsFrom(batch, i + 1)

unique_posts_with_feeds(batch) == UniquePostsWithFeedsFrom(batch, 1)

\* _flush_post_batch, step 4: the FeedPostCreate of every feed of every post.
RECURSIVE FeedLinksFrom(_, _, _, _)
FeedLinksFrom(tbl, uniq, i, t) ==
    IF i > Len(uniq) THEN <<>>
    ELSE LET e == uniq[i]
         IN (IF HasCid(tbl, e.post.cid)
             THEN [k \in DOMAIN e.feed_ids |->
                     [post_id |-> PostByCid(tbl, e.post.cid).id,
                      feed_id |-> e.feed_ids[k], relevance_score |-> 1,
                      ingested_at |-> t]]
             ELSE <<>>) \o FeedLinksFrom(tbl, uniq, i + 1, t)

\* crud.create_feed_posts_batch: INSERT ... ON CONFLICT (post_id, feed_id)
\* DO NOTHING.
RECURSIVE create_feed_posts_batch(_, _)
create_feed_posts_batch(tbl, fps) ==
    IF fps = <<>> THEN tbl
    ELSE LET fp == Head(fps)
             dup == \E r \in tbl : r.post_id = fp.post_id /\ r.feed_id = fp.feed_id
         IN create_feed_posts_batch(IF dup THEN tbl ELSE tbl \cup {fp}, Tail(fps))

-----------------------------------------------------------------------------
(* Polling: polling_worker.py.                                              *)

LIKE_WEIGHT == 1
REPOST_WEIGHT == 2
REPLY_WEIGHT == 3

\* polling_worker.calculate_engagement_score: the weights are written out
\* in the function.
calculate_engagement_score(like_count, repost_count, reply_count) ==
    (like_count * 1) + (repost_count * 2) + (reply_count * 3)

\* The defaults get_next_poll_schedule reads with rules.get(..., default),
\* in ticks (hours * 3000).
first_poll_age == 252
second_poll_age == 501
third_poll_age == 1002
fourth_poll_age == 1500
fifth_poll_age == 3000
fourth_poll_elimination_score == 0
fifth_poll_elimination_score_threshold == 3
hard_stop_hours == 168
polling_tiers ==
    << [max_age_hours |-> 24, interval_hours |-> 2],
       [max_age_hours |-> 48, interval_hours |-> 6],
       [max_age_hours |-> 72, interval_hours |-> 12],
       [max_age_hours |-> 168, interval_hours |-> 24] >>

NoSchedule == [none |-> TRUE, delta |-> 0]
Schedule(d) == [none |-> FALSE, delta |-> d]

\* load_polling_config's default_config.  Of its deactivation_rules only
\* hard_stop_hours is a key get_next_poll_schedule reads; the other four
\* (initial_check_*, second_check_*) are read nowhere and are left out.
default_config ==
    [rules |-> [k \in {"hard_stop_hours"} |-> hard_stop_hours],
     tiers |-> polling_tiers]

\* A schedule an operator may write to the file: hard stop after one hour.
custom_config ==
    [rules |-> [k \in {"hard_stop_hours"} |-> 1], tiers |-> polling_tiers]

\* The file holding the JSON text {}: no rules and no tiers.
empty_config == [rules |-> [k \in {} |-> 0], tiers |-> <<>>]

\* What the file may hold: JSON text that json.load turns into a config, or
\* something open() or json.load raise on.
Unparsable == [kind |-> "unparsable", value |-> empty_config]
JsonFile(cfg) == [kind |-> "json", value |-> cfg]
ConfigFiles == {JsonFile(default_config), JsonFile(custom_config),
                JsonFile(empty_config), Unparsable}

\* rules.get(key, default)
RuleGet(rules, key, default) ==
    IF key \in DOMAIN rules THEN rules[key] ELSE default

\* polling_worker.load_polling_config with the file existing, L69-74 and the
\* except branch L83-85: what it leaves in the two globals.
load_polling_config(file, mtime, cfg, last) ==
    IF file.kind = "json"
    THEN [polling_config |-> file.value, config_last_modified_time |-> mtime]
    ELSE [polling_config |-> default_config, config_last_modified_time |-> last]

\* run_polling_worker, L286-291: the check at the head of each iteration.
ReloadDue == config_mtime > config_last_modified_time
ReloadCheck ==
    IF ReloadDue
    THEN load_polling_config(config_file, config_mtime, polling_config,
                             config_last_modified_time)
    ELSE [polling_config |-> polling_config,
          config_last_modified_time |-> config_last_modified_time]

\* The configuration names a hard stop and at least one tier.
CompleteConfig(cfg) ==
    "hard_stop_hours" \in DOMAIN cfg.rules /\ cfg.tiers # <<>>

LoadEvent(file) ==
    IF file.kind # "json" THEN "unparsable"
    ELSE IF CompleteConfig(file.value) THEN "valid" ELSE "incomplete"

\* The tier loop of get_next_poll_schedule, L153-163.
RECURSIVE TierSchedule(_, _)
TierSchedule(age, i) ==
    IF i > Len(polling_config.tiers) THEN NoSchedule
    ELSE IF age <= polling_config.tiers[i].max_age_hours * TicksPerHour
         THEN Schedule(polling_config.tiers[i].interval_hours * TicksPerHour)
         ELSE TierSchedule(age, i + 1)

\* A schedule whose hard stop also takes the post aged exactly
\* hard_stop_hours.
ScheduleHardStopInclusive(age, score) ==
    IF age >= RuleGet(polling_config.rules, "hard_stop_hours", hard_stop_hours)
                 * TicksPerHour
    THEN NoSchedule
    ELSE TierSchedule(age, 1)

\* A schedule without the elimination at the 30-minute checkpoint.
ScheduleWithoutFourthElimination(age, score) ==
    LET rules == polling_config.rules
    IN IF age > RuleGet(rules, "hard_stop_hours", hard_stop_hours) * TicksPerHour
       THEN NoSchedule
       ELSE IF age <= first_poll_age THEN Schedule(second_poll_age - age)
       ELSE IF age <= second_poll_age THEN Schedule(third_poll_age - age)
       ELSE IF age <= third_poll_age THEN Schedule(fourth_poll_age - age)
       ELSE IF age <= fourth_poll_age THEN Schedule(fifth_poll_age - age)
       ELSE IF age <= fifth_poll_age /\ score <= fifth_poll_elimination_score_threshold
            THEN NoSchedule
       ELSE TierSchedule(age, 1)

\* A schedule without the hard stop: the early checkpoints and the tiers only.
ScheduleWithoutHardStop(age, score) ==
    IF age <= first_poll_age THEN Schedule(second_poll_age - age)
    ELSE IF age <= second_poll_age THEN Schedule(third_poll_age - age)
    ELSE IF age <= third_poll_age THEN Schedule(fourth_poll_age - age)
    ELSE IF age <= fourth_poll_age
         THEN IF score = fourth_poll_elimination_score
              THEN NoSchedule
              ELSE Schedule(fifth_poll_age - age)
    ELSE IF age <= fifth_poll_age /\ score <= fifth_poll_elimination_score_threshold
         THEN NoSchedule
    ELSE TierSchedule(age, 1)

\* polling_worker.get_next_poll_schedule, reading the global polling_config;
\* age and the result are in ticks.
get_next_poll_schedule(age, score) ==
    LET rules == polling_config.rules
        first == RuleGet(rules, "first_poll_age_hours", first_poll_age)
        second == RuleGet(rules, "second_poll_age_hours", second_poll_age)
        third == RuleGet(rules, "third_poll_age_hours", third_poll_age)
        fourth == RuleGet(rules, "fourth_poll_age_hours", fourth_poll_age)
        fifth == RuleGet(rules, "fifth_poll_age_hours", fifth_poll_age)
    IN IF age > RuleGet(rules, "hard_stop_hours", hard_stop_hours) * TicksPerHour
       THEN NoSchedule
       ELSE IF age <= first THEN Schedule(second - age)
       ELSE IF age <= second THEN Schedule(third - age)
       ELSE IF age <= third THEN Schedule(fourth - age)
       ELSE IF age <= fourth
            THEN IF score = RuleGet(rules, "fourth_poll_elimination_score",
                                    fourth_poll_elimination_score)
                 THEN NoSchedule
                 ELSE Schedule(fifth - age)
       ELSE IF /\ age <= fifth
               /\ score <= RuleGet(rules, "fifth_poll_elimination_score_threshold",
                                   fifth_poll_elimination_score_threshold)
            THEN NoSchedule
       ELSE TierSchedule(age, 1)

\* crud.get_posts_due_for_poll: the rows due, oldest schedule first, at most
\* `limit` of them; rows with the same next_poll_at come in any order.
DuePosts(tbl, t) ==
    {r \in tbl : /\ r.is_active_for_polling
                 /\ r.next_poll_at # Null
                 /\ r.next_poll_at <= t}

PollSelections(tbl, t, limit) ==
    LET due == DuePosts(tbl, t)
        n == Min(limit, Cardinality(due))
    IN {sel \in [1..n -> due] :
          /\ \A i, j \in 1..n : i < j =>
                /\ sel[i] # sel[j]
                /\ sel[i].next_poll_at <= sel[j].next_poll_at
          /\ \A r \in due \ Range(sel) : \A i \in 1..n :
                sel[i].next_poll_at <= r.next_poll_at}

\* What app.bsky.feed.getPosts answers for one URI.
Absent == [present |-> FALSE, likeCount |-> 0, repostCount |-> 0, replyCount |-> 0]
ApiPostDetails ==
    {Absent} \cup {d \in [present : {TRUE}, likeCount : 0..MaxCount,
                          repostCount : 0..MaxCount, replyCount : 0..MaxCount] :
                     d.likeCount >= d.repostCount /\ d.repostCount >= d.replyCount}

\* A retirement that forgets to clear the schedule.
RetireKeepsSchedule(o) == [o EXCEPT !.is_active_for_polling = FALSE]

\* L238-239 and L255-256 of poll_and_update_posts.
Retire(o) == [o EXCEPT !.is_active_for_polling = FALSE, !.next_poll_at = Null]

\* The body of the loop over batch_post_objects, L233-261: the Post object
\* after the assignments.
PollUpdate(o, d, pnow) ==
    IF ~d.present THEN Retire(o)
    ELSE LET score == calculate_engagement_score(d.likeCount, d.repostCount,
                                                 d.replyCount)
             o1 == [o EXCEPT !.like_count = d.likeCount,
                             !.repost_count = d.repostCount,
                             !.reply_count = d.replyCount,
                             !.engagement_score = score]
             next_schedule == get_next_poll_schedule(pnow - o.created_at, score)
         IN IF next_schedule.none THEN Retire(o1)
            ELSE [o1 EXCEPT !.next_poll_at = pnow + next_schedule.delta]

\* db.add_all(...); db.commit(), L266-268.  The session's unit of work emits,
\* for each object, UPDATE posts SET <the attributes whose value differs from
\* the value loaded> WHERE id = <id>; the other columns keep what the table
\* holds at that moment.
WriteDirty(row, o, n) ==
    [row EXCEPT
       !.like_count = IF n.like_count # o.like_count THEN n.like_count ELSE @,
       !.repost_count = IF n.repost_count # o.repost_count THEN n.repost_count ELSE @,
       !.reply_count = IF n.reply_count # o.reply_count THEN n.reply_count ELSE @,
       !.engagement_score =
           IF n.engagement_score # o.engagement_score THEN n.engagement_score ELSE @,
       !.next_poll_at = IF n.next_poll_at # o.next_poll_at THEN n.next_poll_at ELSE @,
       !.is_active_for_polling =
           IF n.is_active_for_polling # o.is_active_for_polling
           THEN n.is_active_for_polling ELSE @]

CommitPolled(tbl, loaded, resp, pnow) ==
    {IF \E i \in DOMAIN loaded : loaded[i].id = r.id
     THEN LET i == CHOOSE k \in DOMAIN loaded : loaded[k].id = r.id
          IN WriteDirty(r, loaded[i], PollUpdate(loaded[i], resp[i], pnow))
     ELSE r : r \in tbl}

-----------------------------------------------------------------------------
(* The initial state: empty tables, empty queues, idle workers.             *)

ZeroCounts == [likeCount |-> 0, repostCount |-> 0, replyCount |-> 0]

InitTables ==
    /\ users = {}
    /\ posts = {}
    /\ feed_posts = {}
    /\ aggregates = {}
    /\ user_stats = {}
    /\ user_achievements = {}

InitWorkers ==
    /\ received = 0
    /\ delivered = {}
    /\ post_batch_queue = <<>>
    /\ post_current_batch = <<>>
    /\ feed_post_batch_queue = <<>>
    /\ feed_post_current_batch = <<>>
    /\ poll_pc = "idle"
    /\ poll_now = 0
    /\ posts_to_poll = <<>>
    /\ polling_config = default_config
    /\ config_file = JsonFile(default_config)
    /\ config_mtime = 1
    /\ config_last_modified_time = 1
    /\ agg_pc = "idle"
    /\ initially_prominent = {}
    /\ last_processed_timestamp = Null
    /\ stats_pc = "idle"
    /\ updated_dids = {}
    /\ stats_cycles = 0
    /\ listener_pc = [f \in Feeds |-> "connecting"]
    /\ listener_wait = [f \in Feeds |-> 0]

InitGhosts ==
    /\ evaluated = [fn |-> "none"]
    /\ reported = [c \in CIDs |-> ZeroCounts]
    /\ api_monotone = TRUE
    /\ request_failed = FALSE
    /\ last_answer = <<>>
    /\ poll_raised = [n |-> 0, ids |-> {}]
    /\ late_cycles = 0
    /\ config_event = "startup"
    /\ listener_event = [f \in Feeds |-> "start"]
    /\ first_row = [c \in CIDs |-> <<>>]
    /\ last_flush = [seq |-> 0, ok |-> TRUE, items |-> 0, cids |-> {}, again |-> {},
                    failed |-> 0]
    /\ last_upsert = [seq |-> 0, ok |-> TRUE, batch |-> <<>>, freed |-> {}, before |-> {}]
    /\ agg_writes = {}
    /\ last_cycle = [seq |-> 0, top |-> {}]
    /\ award_failed = {}

InitHistory ==
    /\ InitGhosts
    /\ refresh = [resolvable |-> {}, parity |-> 0, selected |-> {}]

Init == now = 0 /\ InitTables /\ InitWorkers /\ InitHistory

-----------------------------------------------------------------------------
(* The clock.                                                               *)

Tick ==
    /\ now + TickStep <= MaxNow
    /\ now' = now + TickStep
    /\ UNCHANGED <<users, posts, feed_posts, ingestVars, pollVars, last_upsert,
                   aggVars, statsVars>>

-----------------------------------------------------------------------------
(* The ingestion worker.                                                    *)

\* listen_to_contrails_feed -> process_firehose_message: feed_id delivers
\* the record of cid.
Receive(cid, feed_id) ==
    /\ received < MaxMessages
    /\ Len(post_batch_queue) < MaxQueue
    /\ AcceptsCreatedAt(cid, now)
    /\ received' = received + 1
    /\ delivered' = delivered \cup {<<cid, feed_id>>}
    /\ post_batch_queue' =
          Append(post_batch_queue, [post |-> PostCreate(cid, now), feed_id |-> feed_id])
    /\ UNCHANGED <<now, users, posts, feed_posts, post_current_batch,
                   feed_post_batch_queue, feed_post_current_batch, first_row,
                   last_flush, pollVars, last_upsert, aggVars, statsVars, listenVars>>

\* What app.bsky.actor.getProfiles may answer for the DIDs asked: profiles of
\* some of them, in any order, no handle given to two DIDs.
HandleNames == {"h1", "h2"}
ApiHandles == {RealHandle(h) : h \in HandleNames} \cup {InvalidHandle}
UserCreate(did, handle) == [did |-> did, handle |-> handle, is_prominent |-> FALSE]
ProfileAnswers(dids) ==
    {ps \in UNION {[1..n -> {UserCreate(d, h) : d \in dids, h \in ApiHandles}]
                   : n \in 0..Cardinality(dids)} :
        \A i, j \in DOMAIN ps : i # j =>
            /\ ps[i].did # ps[j].did
            /\ ps[i].handle.kind = "real" => ps[i].handle # ps[j].handle}

\* A flush that commits the placeholders before the posts are upserted.
FlushUsersCommitEarly(refreshed, dids, ok, t) ==
    CreatePlaceholderUsers(refreshed, dids, t)

\* The users table after a flush.  resolve_and_update_profiles commits the
\* refreshed profiles on its own (crud.upsert_users_batch); the placeholders
\* are executed in the transaction that upsert_posts_batch commits or rolls
\* back.
FlushUsers(refreshed, dids, ok, t) ==
    IF ok THEN CreatePlaceholderUsers(refreshed, dids, t) ELSE refreshed

\* An upsert that returns the rows of its statement although the
\* transaction was rolled back.
InsertedPostsUncommitted(tbl, ps, up, t) == UpsertPostRowsFrom(tbl, ps, 1, t)

\* What crud.upsert_posts_batch returns to _flush_post_batch (L484): after
\* the commit the rows SELECTed from the table (every stored CID of the batch
\* is among them), after a rollback the empty list.
inserted_posts(tbl, ps, up, t) == IF up.ok THEN up.tbl ELSE {}

\* _flush_post_batch(batch), L452-498, with the crud calls it makes;
\* db_rejects: the database raises on the statements of this flush.
FlushPostBatchDb(batch, db_rejects) ==
    LET uniq == unique_posts_with_feeds(batch)
        posts_to_upsert == [i \in DOMAIN uniq |-> uniq[i].post]
        author_dids_in_batch == {posts_to_upsert[i].author_did : i \in DOMAIN uniq}
        dids_to_refresh == StaleUserDids(users, author_dids_in_batch, now)
        up == IF db_rejects THEN [ok |-> FALSE, tbl |-> posts]
              ELSE upsert_posts_batch(posts, posts_to_upsert, now)
        links == FeedLinksFrom(inserted_posts(posts, posts_to_upsert, up, now),
                               uniq, 1, now)
        cids == {posts_to_upsert[i].cid : i \in DOMAIN uniq}
    IN /\ Len(feed_post_batch_queue) <= MaxFeedQueue
       /\ \E profiles \in ProfileAnswers(dids_to_refresh) :
             LET refreshed == UpsertUsersBatch(users, profiles, now).tbl
             IN users' = FlushUsers(refreshed, author_dids_in_batch, up.ok, now)
       /\ posts' = up.tbl
       /\ feed_post_batch_queue' = feed_post_batch_queue \o links
       /\ first_row' = [c \in CIDs |->
                          IF up.ok /\ c \in cids /\ ~HasCid(posts, c)
                          THEN <<PostByCid(up.tbl, c)>> ELSE first_row[c]]
       /\ last_flush' = [seq |-> last_flush.seq + 1, ok |-> up.ok,
                         items |-> Len(batch), cids |-> cids,
                         again |-> {c \in cids : HasCid(posts, c)},
                         failed |-> last_flush.failed + (IF up.ok THEN 0 ELSE 1)]

FlushPostBatch(batch) == FlushPostBatchDb(batch, FALSE)

\* post_batch_worker: a message arrives within BATCH_INTERVAL_SECONDS.
PostWorkerGetDb(db_rejects) ==
    /\ post_batch_queue # <<>>
    /\ post_batch_queue' = Tail(post_batch_queue)
    /\ LET current_batch == Append(post_current_batch, Head(post_batch_queue))
       IN IF Len(current_batch) >= BATCH_SIZE
          THEN /\ FlushPostBatchDb(current_batch, db_rejects)
               /\ post_current_batch' = <<>>
          ELSE /\ post_current_batch' = current_batch
               /\ UNCHANGED <<users, posts, feed_post_batch_queue, first_row,
                              last_flush>>
    /\ UNCHANGED <<now, feed_posts, received, delivered, feed_post_current_batch,
                   pollVars,
                   last_upsert, aggVars, statsVars, listenVars>>

PostWorkerGet == PostWorkerGetDb(FALSE)

\* A worker that goes back to waiting after a timeout, the batch as it is.
PostWorkerTimeoutKeepsBatch(db_rejects) ==
    /\ post_batch_queue = <<>>
    /\ post_current_batch # <<>>
    /\ UNCHANGED vars

\* post_batch_worker: asyncio.TimeoutError, no message for the interval.
PostWorkerTimeoutDb(db_rejects) ==
    /\ post_batch_queue = <<>>
    /\ post_current_batch # <<>>
    /\ FlushPostBatchDb(post_current_batch, db_rejects)
    /\ post_current_batch' = <<>>
    /\ UNCHANGED <<now, feed_posts, received, delivered, post_batch_queue,
                   feed_post_current_batch, pollVars, last_upsert, aggVars, statsVars, listenVars>>

PostWorkerTimeout == PostWorkerTimeoutDb(FALSE)

\* feed_post_batch_worker, L521-540.
\* crud.create_feed_posts_batch, called by feed_post_batch_worker: when the
\* database raises, the except branch rolls back and returns [].
FlushFeedPosts(tbl, fps, db_rejects) ==
    IF db_rejects THEN tbl ELSE create_feed_posts_batch(tbl, fps)

\* feed_post_batch_worker: a link arrives within BATCH_INTERVAL_SECONDS.
FeedPostWorkerGetDb(db_rejects) ==
    /\ feed_post_batch_queue # <<>>
    /\ feed_post_batch_queue' = Tail(feed_post_batch_queue)
    /\ LET current_batch == Append(feed_post_current_batch, Head(feed_post_batch_queue))
       IN IF Len(current_batch) >= BATCH_SIZE
          THEN /\ feed_posts' = FlushFeedPosts(feed_posts, current_batch, db_rejects)
               /\ feed_post_current_batch' = <<>>
          ELSE /\ feed_post_current_batch' = current_batch
               /\ UNCHANGED feed_posts
    /\ UNCHANGED <<now, users, posts, received, delivered, post_batch_queue,
                   post_current_batch, first_row, last_flush, pollVars,
                   last_upsert, aggVars, statsVars, listenVars>>

FeedPostWorkerGet == FeedPostWorkerGetDb(FALSE)

\* feed_post_batch_worker: asyncio.TimeoutError.
FeedPostWorkerTimeoutDb(db_rejects) ==
    /\ feed_post_batch_queue = <<>>
    /\ feed_post_current_batch # <<>>
    /\ feed_posts' = FlushFeedPosts(feed_posts, feed_post_current_batch, db_rejects)
    /\ feed_post_current_batch' = <<>>
    /\ UNCHANGED <<now, users, posts, received, delivered, post_batch_queue,
                   post_current_batch, feed_post_batch_queue, first_row,
                   last_flush, pollVars,
                   last_upsert, aggVars, statsVars, listenVars>>

FeedPostWorkerTimeout == FeedPostWorkerTimeoutDb(FALSE)

-----------------------------------------------------------------------------
(* The polling worker: one cycle of poll_and_update_posts is two steps,     *)
(* the SELECT of the due posts and, after the awaits on the metrics API,    *)
(* the commit.  Other workers commit in between.                            *)

\* L207-221: now, the due posts, none due ends the cycle.
\* run_polling_worker, L286-291: reload the file if it changed.
ApplyReloadCheck ==
    /\ polling_config' = ReloadCheck.polling_config
    /\ config_last_modified_time' = ReloadCheck.config_last_modified_time
    /\ config_event' = IF ReloadDue THEN LoadEvent(config_file) ELSE config_event

PollBegin ==
    /\ poll_pc = "idle"
    /\ DuePosts(posts, now) # {}
    /\ poll_now' = now
    /\ posts_to_poll' \in PollSelections(posts, now, POLLING_WORKER_BATCH_LIMIT)
    /\ poll_pc' = "fetching"
    /\ ApplyReloadCheck
    /\ UNCHANGED <<now, users, posts, feed_posts, ingestVars, reported,
                   api_monotone, request_failed, last_answer, poll_raised,
                   late_cycles,
                   config_file, config_mtime, last_upsert, aggVars, statsVars>>

\* An iteration of run_polling_worker that reloads the file and finds no
\* post due (poll_and_update_posts returns at L210-212).
PollNothingDue ==
    /\ poll_pc = "idle"
    /\ DuePosts(posts, now) = {}
    /\ ReloadDue
    /\ ApplyReloadCheck
    /\ UNCHANGED <<now, users, posts, feed_posts, ingestVars, poll_pc, poll_now,
                   posts_to_poll, reported, api_monotone, request_failed,
                   last_answer, poll_raised, late_cycles, config_file, config_mtime,
                   last_upsert, aggVars, statsVars>>

\* Somebody writes the configuration file.
WriteConfigFile(file) ==
    /\ config_mtime <= MaxConfigWrites
    /\ config_file' = file
    /\ config_mtime' = config_mtime + 1
    /\ UNCHANGED <<now, users, posts, feed_posts, ingestVars, poll_pc, poll_now,
                   posts_to_poll, reported, api_monotone, request_failed,
                   last_answer, poll_raised, late_cycles, polling_config,
                   config_last_modified_time, config_event, last_upsert, aggVars,
                   statsVars>>

\* L226-268: get_posts_engagement_data answers (after an HTTP error status,
\* a timeout or another exception it returns {}, so no URI is in the
\* answer), then the assignments and the commit.
PollCommit ==
    /\ poll_pc = "fetching"
    /\ \E failed \in BOOLEAN, resp \in [DOMAIN posts_to_poll -> ApiPostDetails] :
          /\ failed => \A i \in DOMAIN resp : resp[i] = Absent
          /\ request_failed' = failed
          /\ last_answer' = resp
          /\ posts' = CommitPolled(posts, posts_to_poll, resp, poll_now)
          /\ reported' =
                [c \in CIDs |->
                   IF \E i \in DOMAIN resp : posts_to_poll[i].cid = c /\ resp[i].present
                   THEN LET i == CHOOSE k \in DOMAIN resp : posts_to_poll[k].cid = c
                        IN [likeCount |-> resp[i].likeCount,
                            repostCount |-> resp[i].repostCount,
                            replyCount |-> resp[i].replyCount]
                   ELSE reported[c]]
          /\ api_monotone' =
                (api_monotone /\ \A i \in DOMAIN resp : resp[i].present =>
                    LET was == reported[posts_to_poll[i].cid]
                    IN /\ resp[i].likeCount >= was.likeCount
                       /\ resp[i].repostCount >= was.repostCount
                       /\ resp[i].replyCount >= was.replyCount)
    /\ poll_pc' = "idle"
    /\ posts_to_poll' = <<>>
    /\ UNCHANGED <<now, users, feed_posts, ingestVars, poll_now, poll_raised,
                   late_cycles,
                   configVars, last_upsert, aggVars, statsVars>>

\* An except branch that commits what the loop had assigned.
PollRollbackKeepsAssigned(tbl, loaded, resp, pnow, k) ==
    CommitPolled(tbl, SubSeq(loaded, 1, k), resp, pnow)

\* L270-272: db.rollback() after an exception raised when the loop had
\* assigned to the first k Post objects.  The assignments are pending in the
\* session (no statement is executed between them and the commit, so nothing
\* is flushed) and are discarded.
PollRollback(tbl, loaded, resp, pnow, k) == tbl

\* L226-272: the cycle raises before its commit, or in it.
PollRaises(k) ==
    /\ poll_pc = "fetching"
    /\ poll_raised.n < MaxPollRaises
    /\ k <= Len(posts_to_poll)
    /\ \E resp \in [DOMAIN posts_to_poll -> ApiPostDetails] :
          posts' = PollRollback(posts, posts_to_poll, resp, poll_now, k)
    /\ poll_raised' = [n |-> poll_raised.n + 1,
                       ids |-> {posts_to_poll[i].id : i \in DOMAIN posts_to_poll}]
    /\ poll_pc' = "idle"
    /\ posts_to_poll' = <<>>
    /\ UNCHANGED <<now, users, feed_posts, ingestVars, poll_now, reported,
                   api_monotone, request_failed, last_answer, late_cycles,
                   configVars, last_upsert, aggVars, statsVars>>

-----------------------------------------------------------------------------
(* The ingestion worker and the polling worker side by side.                *)

Next ==
    \/ Tick
    \/ \E cid \in CIDs, feed_id \in Feeds : Receive(cid, feed_id)
    \/ PostWorkerGet
    \/ PostWorkerTimeout
    \/ FeedPostWorkerGet
    \/ FeedPostWorkerTimeout
    \/ PollBegin
    \/ PollCommit

Spec == Init /\ [][Next]_vars

\* The same workers with polling cycles that may raise.
NextPollRaises ==
    \/ Next
    \/ \E k \in 0..POLLING_WORKER_BATCH_LIMIT : PollRaises(k)

SpecPollRaises == Init /\ [][NextPollRaises]_vars

-----------------------------------------------------------------------------
(* Properties of the posts table under ingestion and polling.               *)

\* C1: in every state reachable by interleaving ingestion flushes and
\* polling cycles, a Post that is not active for polling has no next_poll_at.
InactiveHasNoSchedule ==
    \A p \in posts : ~p.is_active_for_polling => p.next_poll_at = Null

\* A polling cycle has retired a post, and a later flush has stored another
\* one, which is active.
RetiredNextToIngested ==
    \E p, q \in posts :
        /\ ~p.is_active_for_polling /\ p.next_poll_at = Null
        /\ q.is_active_for_polling /\ q.ingested_at > p.ingested_at

\* C2: after every ingestion upsert and every committed polling cycle, the
\* stored engagement_score of each Post is LIKE_WEIGHT * like_count +
\* REPOST_WEIGHT * repost_count + REPLY_WEIGHT * reply_count of the counters
\* stored with it.
ScoreMatchesCounters ==
    \A p \in posts :
        p.engagement_score = LIKE_WEIGHT * p.like_count
                             + REPOST_WEIGHT * p.repost_count
                             + REPLY_WEIGHT * p.reply_count

\* C3: while a Post stays active for polling, none of its like, repost and
\* reply counters decreases from one committed state to the next, under
\* polling updates and re-ingestions of its CID, as long as the API has
\* never reported a lower count than before.
CountersNeverDecreaseWhileActive ==
    [][api_monotone' =>
         \A p \in posts : \A q \in posts' :
             (q.cid = p.cid /\ p.is_active_for_polling /\ q.is_active_for_polling)
             => /\ q.like_count >= p.like_count
                /\ q.repost_count >= p.repost_count
                /\ q.reply_count >= p.reply_count]_vars

\* The ingestion pipeline is at rest: nothing queued, nothing batched.
Quiescent ==
    /\ post_batch_queue = <<>> /\ post_current_batch = <<>>
    /\ feed_post_batch_queue = <<>> /\ feed_post_current_batch = <<>>

FeedsOfCid(c) ==
    {r.feed_id : r \in {x \in feed_posts : \E p \in posts : p.cid = c /\ p.id = x.post_id}}

\* C4: when two feeds deliver the same CID, in one batch or in two, the
\* database ends with exactly one Post row for the CID and exactly one
\* FeedPost row per feed, and no flush fails.
SameCidConverges ==
    /\ \A c \in CIDs : Cardinality({p \in posts : p.cid = c}) <= 1
    /\ \A r1, r2 \in feed_posts :
          (r1.post_id = r2.post_id /\ r1.feed_id = r2.feed_id) => r1 = r2
    /\ last_flush.ok
    /\ Quiescent =>
          \A c \in CIDs :
              /\ (\E f \in Feeds : <<c, f>> \in delivered) =>
                     Cardinality({p \in posts : p.cid = c}) = 1
              /\ FeedsOfCid(c) = {f \in Feeds : <<c, f>> \in delivered}

\* Both feeds delivered c1 and the two copies were flushed as one batch.
BothFeedsInOneBatch ==
    /\ Quiescent
    /\ {<<"c1", "A">>, <<"c1", "B">>} \subseteq delivered
    /\ last_flush.items = 2 /\ last_flush.cids = {"c1"}
    /\ Cardinality({r \in feed_posts : r.post_id = PostByCid(posts, "c1").id}) = 2

\* The copies came in two batches.
BothFeedsInTwoBatches ==
    /\ Quiescent
    /\ {<<"c1", "A">>, <<"c1", "B">>} \subseteq delivered
    /\ last_flush.items = 1 /\ last_flush.again = {"c1"}
    /\ Cardinality({r \in feed_posts : r.post_id = PostByCid(posts, "c1").id}) = 2

\* The flush of this step stored CID c again.
Reingested(c) ==
    /\ last_flush'.seq # last_flush.seq
    /\ last_flush'.ok
    /\ c \in last_flush'.again

-----------------------------------------------------------------------------
(* The users table under upsert_users_batch, called with any batch of       *)
(* profiles in which no handle is given to two DIDs.                        *)

UserBatches ==
    {b \in UNION {[1..n -> {UserCreate(d, h) : d \in DIDs, h \in ApiHandles}]
                  : n \in 1..MaxBatch} :
        \A i, j \in DOMAIN b :
            (b[i].did # b[j].did /\ b[i].handle.kind = "real")
            => b[i].handle # b[j].handle}

UpsertUsers(batch) ==
    /\ last_upsert.seq < MaxUpserts
    /\ LET r == UpsertUsersBatch(users, batch, now)
       IN /\ users' = r.tbl
          /\ last_upsert' = [seq |-> last_upsert.seq + 1, ok |-> r.ok,
                             batch |-> batch, freed |-> r.freed,
                             before |-> users]
    /\ UNCHANGED <<now, posts, feed_posts, ingestVars, pollVars, aggVars,
                   statsVars>>

NextUsers == \E batch \in UserBatches : UpsertUsers(batch)

SpecUsers == Init /\ [][NextUsers]_vars

\* The batch of the last call as upsert_users_batch wrote it.
LastFinalBatch == SanitizeUsersFrom(DedupUsersFrom(last_upsert.batch, 1), 1, {})

\* C6: when the batch holds a profile for DID B whose handle is stored on a
\* DID A that is not in the batch, A gets the placeholder unknown.<A> and
\* afterwards exactly one row, B's, holds the handle.
HandleMovesToNewOwner ==
    LET final == LastFinalBatch
        dids_in_batch == {final[i].did : i \in DOMAIN final}
    IN \A i \in DOMAIN final : \A a \in last_upsert.before :
          (/\ final[i].handle.kind = "real"
           /\ a.handle = final[i].handle
           /\ a.did \notin dids_in_batch)
          => /\ \E r \in users : r.did = a.did /\ r.handle = UnknownHandle(a.did)
             /\ {r.did : r \in {x \in users : x.handle = final[i].handle}}
                   = {final[i].did}

-----------------------------------------------------------------------------
(* Aggregates and prominence.                                               *)

AggKey(r) == <<r.feed_id, r.agg_name, r.timeframe>>

\* A write that adds a row whatever the table holds.
CreateAggregateAlwaysInserts(tbl, feed_id, agg_name, timeframe, data_json, t) ==
    tbl \cup {[id |-> Cardinality(tbl) + 1, feed_id |-> feed_id,
               agg_name |-> agg_name, timeframe |-> timeframe,
               data_json |-> data_json, created_at |-> t, updated_at |-> t]}

\* crud.create_or_update_aggregate: INSERT (id = uuid4()) ... ON CONFLICT
\* (feed_id, agg_name, timeframe) DO UPDATE SET data_json, updated_at; commit.
create_or_update_aggregate(tbl, feed_id, agg_name, timeframe, data_json, t) ==
    IF \E r \in tbl : AggKey(r) = <<feed_id, agg_name, timeframe>>
    THEN {IF AggKey(r) = <<feed_id, agg_name, timeframe>>
          THEN [r EXCEPT !.data_json = data_json, !.updated_at = t]
          ELSE r : r \in tbl}
    ELSE tbl \cup {[id |-> Cardinality(tbl) + 1, feed_id |-> feed_id,
                    agg_name |-> agg_name, timeframe |-> timeframe,
                    data_json |-> data_json, created_at |-> t, updated_at |-> t]}

\* crud.get_time_boundary, for the timeframes of the model; allTime is
\* datetime.min.
get_time_boundary(timeframe, t) ==
    IF timeframe = "1h" THEN t - TicksPerHour
    ELSE IF timeframe = "1d" THEN t - 24 * TicksPerHour
    ELSE Null

TOP_LIMIT == 50

\* ORDER BY count DESC LIMIT n over a set of rows with a count.
TopByCount(cands, n) ==
    CHOOSE S \in SUBSET cands :
        /\ Cardinality(S) = Min(n, Cardinality(cands))
        /\ \A x \in S : \A y \in cands \ S : x.count >= y.count

\* aggregations.user_aggregates.calculate_top_posters_by_count: users joined
\* with their posts in the feed, counted, the 50 with most posts.
calculate_top_posters_by_count(utbl, ptbl, fptbl, feed_id, timeframe, t) ==
    LET threshold == get_time_boundary(timeframe, t)
        PostsOf(did) ==
            {p \in ptbl : /\ p.author_did = did
                          /\ \E fp \in fptbl :
                                /\ fp.post_id = p.id
                                /\ fp.feed_id = feed_id
                                /\ (timeframe # "allTime" => fp.ingested_at >= threshold)}
        rows == {[did |-> u.did, handle |-> u.handle,
                  count |-> Cardinality(PostsOf(u.did))]
                 : u \in {x \in utbl : PostsOf(x.did) # {}}}
    IN TopByCount(rows, TOP_LIMIT)

\* crud.get_all_prominent_user_dids
get_all_prominent_user_dids(tbl) == {r.did : r \in {x \in tbl : x.is_prominent}}

\* An update that sets the flag whatever value it is given.
SetProminenceAlwaysTrue(tbl, dids, is_prominent) ==
    {IF r.did \in dids THEN [r EXCEPT !.is_prominent = TRUE] ELSE r : r \in tbl}

\* crud.set_user_prominence_batch: UPDATE users SET is_prominent = ... WHERE
\* did IN (dids).
set_user_prominence_batch(tbl, dids, is_prominent) ==
    {IF r.did \in dids THEN [r EXCEPT !.is_prominent = is_prominent] ELSE r
     : r \in tbl}

\* The schedule of the aggregation cycle: for every feed, every pair of an
\* aggregation and a timeframe, each with a minimum recompute interval.
AggJobs ==
    << <<"A", "top_posters_by_count", "1h">>,
       <<"B", "top_posters_by_count", "allTime">> >>
MinRecomputeInterval == FiveMinutes

StoredAggregate(tbl, job) == {r \in tbl : AggKey(r) = job}

\* A scheduler that never looks at updated_at.
JobAlwaysDue(tbl, job, t) == TRUE

JobIsDue(tbl, job, t) ==
    \A r \in StoredAggregate(tbl, job) : t - r.updated_at >= MinRecomputeInterval

\* The jobs of one cycle in order: a job that is due computes its list and
\* writes it; the DIDs of the lists computed are collected.
RECURSIVE RunAggJobs(_, _, _, _, _, _)
RunAggJobs(tbl, utbl, ptbl, fptbl, i, t) ==
    IF i > Len(AggJobs) THEN [tbl |-> tbl, dids |-> {}, writes |-> {}]
    ELSE LET job == AggJobs[i]
         IN IF ~JobIsDue(tbl, job, t)
            THEN RunAggJobs(tbl, utbl, ptbl, fptbl, i + 1, t)
            ELSE LET data == calculate_top_posters_by_count(
                                 utbl, ptbl, fptbl, job[1], job[3], t)
                     rest == RunAggJobs(
                                 create_or_update_aggregate(
                                     tbl, job[1], job[2], job[3], data, t),
                                 utbl, ptbl, fptbl, i + 1, t)
                 IN [tbl |-> rest.tbl,
                     dids |-> {x.did : x \in data} \cup rest.dids,
                     writes |-> {[key |-> job, data_json |-> data]} \cup rest.writes]

\* The cycle starts: the DIDs that are prominent now.
AggCycleBegin ==
    /\ agg_pc = "idle"
    /\ last_cycle.seq < MaxCycles
    /\ agg_pc' = "running"
    /\ initially_prominent' = get_all_prominent_user_dids(users)
    /\ UNCHANGED <<now, users, posts, feed_posts, ingestVars, pollVars,
                   last_upsert, aggregates, agg_writes, last_cycle, evaluated,
                   refresh,
                   statsVars>>

\* The cycle runs its jobs and sets is_prominent: true for the DIDs new in
\* the lists, false for the prominent DIDs no longer in them; one commit.
AggCycleEnd ==
    /\ agg_pc = "running"
    /\ LET r == RunAggJobs(aggregates, users, posts, feed_posts, 1, now)
           newlyProminent == r.dids
           to_add == newlyProminent \ initially_prominent
           to_remove == initially_prominent \ newlyProminent
       IN /\ aggregates' = r.tbl
          /\ agg_writes' = r.writes
          /\ users' = set_user_prominence_batch(
                          set_user_prominence_batch(users, to_add, TRUE),
                          to_remove, FALSE)
          /\ last_cycle' = [seq |-> last_cycle.seq + 1, top |-> newlyProminent]
    /\ agg_pc' = "idle"
    /\ initially_prominent' = {}
    /\ UNCHANGED <<now, posts, feed_posts, ingestVars, pollVars, last_upsert,
                   evaluated, refresh, statsVars>>

\* profile_resolver.trigger_profile_resolution(did): the profile of one stored
\* user is fetched and upserted; nothing is written when the API has none.
TriggerProfileResolution(did) ==
    /\ \E r \in users : r.did = did
    /\ \E profiles \in ProfileAnswers({did}) :
          /\ profiles # <<>>
          /\ UpsertUsers(profiles)

\* The database after the ingestion of the pairs <<cid, feed_id>> of D.
SeedCids(D) == {d[1] : d \in D}
SeedSchemas(D) ==
    (IF "c1" \in SeedCids(D) THEN <<PostCreate("c1", 0)>> ELSE <<>>)
    \o (IF "c2" \in SeedCids(D) THEN <<PostCreate("c2", 0)>> ELSE <<>>)
SeedPosts(D) == upsert_posts_batch({}, SeedSchemas(D), 0).tbl
SeedUsers(D) == CreatePlaceholderUsers({}, {RecordAuthor(c) : c \in SeedCids(D)}, 0)
SeedFeedPosts(D) ==
    {[post_id |-> PostByCid(SeedPosts(D), d[1]).id, feed_id |-> d[2],
      relevance_score |-> 1, ingested_at |-> 0] : d \in D}

InitAgg ==
    /\ now = 0 /\ InitWorkers /\ InitHistory
    /\ aggregates = {} /\ user_stats = {} /\ user_achievements = {}
    /\ \E D \in SUBSET (CIDs \X Feeds) :
          /\ D # {}
          /\ posts = SeedPosts(D)
          /\ users = SeedUsers(D)
          /\ feed_posts = SeedFeedPosts(D)

NextAgg ==
    \/ Tick
    \/ AggCycleBegin
    \/ AggCycleEnd
    \/ \E did \in DIDs : TriggerProfileResolution(did)

SpecAgg == InitAgg /\ [][NextAgg]_vars

\* C7: after every cycle of create_or_update_aggregate calls there is exactly
\* one Aggregate row per (feed_id, agg_name, timeframe): a write for a triple
\* that has a row keeps that row (same id) and stores the new payload in it,
\* a write for a new triple adds its one row, and no other row appears.
OneAggregatePerTriple ==
    [][last_cycle'.seq # last_cycle.seq =>
          /\ \A r1, r2 \in aggregates' : AggKey(r1) = AggKey(r2) => r1 = r2
          /\ \A w \in agg_writes' :
                \E r \in aggregates' :
                    /\ AggKey(r) = w.key
                    /\ r.data_json = w.data_json
                    /\ \A o \in aggregates : AggKey(o) = w.key => o.id = r.id
          /\ {AggKey(r) : r \in aggregates'}
                = {AggKey(r) : r \in aggregates} \cup {w.key : w \in agg_writes'}
    ]_vars

\* A triple was recomputed: its row was written a second time, later.
AggregateRecomputed ==
    /\ last_cycle.seq = 2
    /\ \E r \in aggregates :
          /\ r.updated_at > r.created_at
          /\ \E w \in agg_writes : w.key = AggKey(r)

-----------------------------------------------------------------------------
(* The stats and achievements worker.                                       *)

RECURSIVE SetSum(_, _)
SetSum(f, S) ==
    IF S = {} THEN 0
    ELSE LET x == CHOOSE y \in S : TRUE IN f[x] + SetSum(f, S \ {x})

SetMax(S) == CHOOSE x \in S : \A y \in S : y <= x
SetMin(S) == CHOOSE x \in S : \A y \in S : x <= y

\* L269-293: posts joined with feed_posts, created after `since` when there
\* is one, grouped by (author_did, feed_id). The columns quote and video,
\* which the Post rows of this model do not carry, are left out.
StatsGroupBeforeSince(ptbl, fptbl, since, did, feed_id) ==
    {p \in ptbl : /\ p.author_did = did
                  /\ \E fp \in fptbl : fp.post_id = p.id /\ fp.feed_id = feed_id
                  /\ (since # Null => p.created_at < since)}

\* The query with created_at >= since: the post at the high-water mark is
\* read again.
StatsGroupFromSince(ptbl, fptbl, since, did, feed_id) ==
    {p \in ptbl : /\ p.author_did = did
                  /\ \E fp \in fptbl : fp.post_id = p.id /\ fp.feed_id = feed_id
                  /\ (since # Null => p.created_at >= since)}

StatsGroup(ptbl, fptbl, since, did, feed_id) ==
    {p \in ptbl : /\ p.author_did = did
                  /\ \E fp \in fptbl : fp.post_id = p.id /\ fp.feed_id = feed_id
                  /\ (since # Null => p.created_at > since)}

StatsMapping(g, did, feed_id) ==
    [user_did |-> did, feed_id |-> feed_id,
     post_count |-> Cardinality(g),
     total_likes_received |-> SetSum([p \in g |-> p.like_count], g),
     total_reposts_received |-> SetSum([p \in g |-> p.repost_count], g),
     total_replies_received |-> SetSum([p \in g |-> p.reply_count], g),
     image_post_count |-> SetSum([p \in g |-> IF p.has_image THEN 1 ELSE 0], g),
     max_post_engagement |-> SetMax({p.like_count + p.repost_count : p \in g}),
     first_post_at |-> SetMin({p.created_at : p \in g}),
     latest_post_at |-> SetMax({p.created_at : p \in g})]

stats_mappings(ptbl, fptbl, since) ==
    {StatsMapping(StatsGroup(ptbl, fptbl, since, did, f), did, f) :
        <<did, f>> \in {k \in DIDs \X Feeds :
                           StatsGroup(ptbl, fptbl, since, k[1], k[2]) # {}}}

\* L330-366: the upsert of one mapping on (user_did, feed_id); first_post_at
\* is in neither set_ and keeps the value of the insert.
UpsertStatsRow(stbl, m, since) ==
    IF \E r \in stbl : r.user_did = m.user_did /\ r.feed_id = m.feed_id
    THEN LET old == CHOOSE r \in stbl :
                        r.user_did = m.user_did /\ r.feed_id = m.feed_id
         IN (stbl \ {old}) \cup
            {IF since # Null
             THEN [old EXCEPT
                     !.post_count = @ + m.post_count,
                     !.total_likes_received = @ + m.total_likes_received,
                     !.total_reposts_received = @ + m.total_reposts_received,
                     !.total_replies_received = @ + m.total_replies_received,
                     !.image_post_count = @ + m.image_post_count,
                     !.max_post_engagement = Max(@, m.max_post_engagement),
                     !.latest_post_at = m.latest_post_at]
             ELSE [m EXCEPT !.first_post_at = old.first_post_at]}
    ELSE stbl \cup {m}

RECURSIVE UpsertStatsRows(_, _, _)
UpsertStatsRows(stbl, ms, since) ==
    IF ms = {} THEN stbl
    ELSE LET m == CHOOSE x \in ms : TRUE
         IN UpsertStatsRows(UpsertStatsRow(stbl, m, since), ms \ {m}, since)

\* L295-370: the mappings of the query are upserted; the DIDs written and the
\* latest creation time among them are returned.
UpsertMappings(stbl, ms, since) ==
    IF ms = {}
    THEN [tbl |-> stbl, dids |-> {}, latest |-> Null]
    ELSE [tbl |-> UpsertStatsRows(stbl, ms, since),
          dids |-> {m.user_did : m \in ms},
          latest |-> SetMax({m.latest_post_at : m \in ms})]

\* stats_worker.update_all_user_stats(db, since)
update_all_user_stats(stbl, ptbl, fptbl, since) ==
    UpsertMappings(stbl, stats_mappings(ptbl, fptbl, since), since)

\* Rows of table achievements that seed_achievements creates from
\* ACHIEVEMENT_DEFINITIONS: the first tiers of icebreaker, image_poster and
\* global_image_poster.
NoFeed == "NULL"        \* feed_id of the award of a GLOBAL achievement
Achievements ==
    {[id |-> 1, key |-> "icebreaker_i", type |-> "PER_FEED",
      stat |-> "post_count", operator |-> "==", value |-> 1,
      agg_method |-> "none"],
     [id |-> 2, key |-> "image_poster_i", type |-> "PER_FEED",
      stat |-> "image_post_count", operator |-> ">=", value |-> 1,
      agg_method |-> "none"],
     [id |-> 3, key |-> "global_image_poster_i", type |-> "GLOBAL",
      stat |-> "image_post_count", operator |-> ">=", value |-> 1,
      agg_method |-> "sum"],
     [id |-> 4, key |-> "power_poster_i", type |-> "PER_FEED",
      stat |-> "post_count", operator |-> ">=", value |-> 10,
      agg_method |-> "none"],
     [id |-> 5, key |-> "power_poster_ii", type |-> "PER_FEED",
      stat |-> "post_count", operator |-> ">=", value |-> 50,
      agg_method |-> "none"],
     [id |-> 6, key |-> "power_poster_iii", type |-> "PER_FEED",
      stat |-> "post_count", operator |-> ">=", value |-> 250,
      agg_method |-> "none"]}

StatValue(s, stat) ==
    IF stat = "post_count" THEN s.post_count ELSE s.image_post_count

\* achievement_service.get_current_value_for_achievement: stats is one
\* UserStats row for a PER_FEED achievement, the user's rows for a GLOBAL one.
get_current_value_for_achievement(achievement, stats) ==
    IF achievement.type = "GLOBAL"
    THEN IF achievement.agg_method = "sum"
         THEN SetSum([x \in stats |-> StatValue(x, achievement.stat)], stats)
         ELSE IF achievement.agg_method = "count" THEN Cardinality(stats)
         ELSE IF achievement.agg_method = "max"
         THEN Max(0, SetMax({StatValue(x, achievement.stat) : x \in stats} \cup {0}))
         ELSE Null
    ELSE StatValue(stats, achievement.stat)

\* The comparison of a ">=" criterion made with ">".
CheckCriteriaStrict(achievement, stats) ==
    LET actual_value == get_current_value_for_achievement(achievement, stats)
    IN /\ actual_value # Null
       /\ IF achievement.operator = "==" THEN actual_value = achievement.value
          ELSE actual_value > achievement.value

\* Every criterion compared with "==", whatever its operator.
CheckCriteriaEquals(achievement, stats) ==
    LET actual_value == get_current_value_for_achievement(achievement, stats)
    IN actual_value # Null /\ actual_value = achievement.value

\* achievement_service.check_achievement_criteria
check_achievement_criteria(achievement, stats) ==
    LET actual_value == get_current_value_for_achievement(achievement, stats)
    IN /\ actual_value # Null
       /\ IF achievement.operator = "==" THEN actual_value = achievement.value
          ELSE actual_value >= achievement.value

earned_map(atbl, user_did) ==
    {<<r.achievement_id, r.feed_id>> : r \in {x \in atbl : x.user_did = user_did}}

\* L406-442: the awards the loops add to the session.
NewAwards(atbl, stbl, user_dids, checkGlobalEarned) ==
    LET records(u) == {x \in stbl : x.user_did = u}
        per_feed ==
            {[user_did |-> k[1], achievement_id |-> k[2].id, feed_id |-> k[3].feed_id] :
                k \in {q \in user_dids \X Achievements \X stbl :
                          /\ q[3].user_did = q[1]
                          /\ q[2].type = "PER_FEED"
                          /\ <<q[2].id, q[3].feed_id>> \notin earned_map(atbl, q[1])
                          /\ check_achievement_criteria(q[2], q[3])}}
        global ==
            {[user_did |-> k[1], achievement_id |-> k[2].id, feed_id |-> NoFeed] :
                k \in {q \in user_dids \X Achievements :
                          /\ records(q[1]) # {}
                          /\ q[2].type = "GLOBAL"
                          /\ (checkGlobalEarned =>
                                <<q[2].id, NoFeed>> \notin earned_map(atbl, q[1]))
                          /\ check_achievement_criteria(q[2], records(q[1]))}}
    IN per_feed \cup global

RECURSIVE InsertAwards(_, _, _)
InsertAwards(atbl, new, t) ==
    IF new = {} THEN atbl
    ELSE LET k == CHOOSE x \in new : TRUE
         IN InsertAwards(
                atbl \cup {[id |-> Cardinality(atbl) + 1, user_did |-> k.user_did,
                            achievement_id |-> k.achievement_id,
                            feed_id |-> k.feed_id, earned_at |-> t]},
                new \ {k}, t)

\* L445 with uq_user_achievement_per_feed (models.py L267-269): the commit
\* fails, and nothing is stored, when a new row repeats a stored
\* (user_did, achievement_id, feed_id) whose feed_id is not NULL.
CommitAwards(atbl, new, t) ==
    IF \E k \in new : \E r \in atbl :
           /\ k.feed_id # NoFeed
           /\ r.user_did = k.user_did
           /\ r.achievement_id = k.achievement_id
           /\ r.feed_id = k.feed_id
    THEN atbl
    ELSE InsertAwards(atbl, new, t)

\* The award loop without the look-up of (achievement_id, None) in earned_map.
AwardWithoutGlobalEarnedCheck(atbl, stbl, user_dids, t) ==
    CommitAwards(atbl, NewAwards(atbl, stbl, user_dids, FALSE), t)

\* stats_worker.award_achievements_for_users(db, user_dids)
award_achievements_for_users(atbl, stbl, user_dids, t) ==
    CommitAwards(atbl, NewAwards(atbl, stbl, user_dids, TRUE), t)

\* run_stats_worker L575-579: the stats of the cycle are written.
StatsUpdate ==
    /\ stats_pc = "idle"
    /\ stats_cycles < MaxStatsCycles
    /\ LET r == update_all_user_stats(user_stats, posts, feed_posts,
                                      last_processed_timestamp)
       IN /\ user_stats' = r.tbl
          /\ updated_dids' = r.dids
          /\ last_processed_timestamp' =
                IF r.latest # Null THEN r.latest ELSE last_processed_timestamp
    /\ stats_pc' = "award"
    /\ UNCHANGED <<now, users, posts, feed_posts, ingestVars, pollVars,
                   last_upsert, aggVars, user_achievements, stats_cycles,
                   award_failed>>

\* run_stats_worker L580: the achievements of the updated users; the cycle
\* ends.
StatsAward ==
    /\ stats_pc = "award"
    /\ user_achievements' = award_achievements_for_users(
                                user_achievements, user_stats, updated_dids, now)
    /\ stats_pc' = "idle"
    /\ stats_cycles' = stats_cycles + 1
    /\ award_failed' = award_failed \ updated_dids
    /\ UNCHANGED <<now, users, posts, feed_posts, ingestVars, pollVars,
                   last_upsert, aggVars, user_stats, updated_dids,
                   last_processed_timestamp>>

\* run_stats_worker L580, L586-588: award_achievements_for_users raises (the
\* database rejects a statement or the commit); the session is rolled back,
\* the stats committed by update_all_user_stats and the high-water mark stay.
StatsAwardFails ==
    /\ stats_pc = "award"
    /\ stats_pc' = "idle"
    /\ stats_cycles' = stats_cycles + 1
    /\ award_failed' = award_failed \cup updated_dids
    /\ UNCHANGED <<now, users, posts, feed_posts, ingestVars, pollVars,
                   last_upsert, aggVars, user_stats, user_achievements,
                   updated_dids, last_processed_timestamp>>

\* run_stats_worker L575-576, L586-588: update_all_user_stats raises before
\* its commit; nothing is written and the high-water mark is not assigned.
StatsUpdateFails ==
    /\ stats_pc = "idle"
    /\ stats_cycles < MaxStatsCycles
    /\ stats_cycles' = stats_cycles + 1
    /\ UNCHANGED <<now, users, posts, feed_posts, ingestVars, pollVars,
                   last_upsert, aggVars, user_stats, user_achievements,
                   stats_pc, updated_dids, last_processed_timestamp,
                   award_failed>>

\* The worker process is started again: L567, and seed_achievements finds
\* every key in the table.
StatsRestart ==
    /\ stats_pc # "idle" \/ last_processed_timestamp # Null
    /\ stats_pc' = "idle"
    /\ last_processed_timestamp' = Null
    /\ updated_dids' = {}
    /\ UNCHANGED <<now, users, posts, feed_posts, ingestVars, pollVars,
                   last_upsert, aggVars, user_stats, user_achievements,
                   stats_cycles, award_failed>>

\* The records the feeds deliver to the stats runs: a second record of author
\* a, created later than the first.
StatsCIDs == CIDs \cup {"c3"}

NextStats ==
    \/ Tick
    \/ \E cid \in StatsCIDs, feed_id \in Feeds : Receive(cid, feed_id)
    \/ PostWorkerGet
    \/ PostWorkerTimeout
    \/ FeedPostWorkerGet
    \/ FeedPostWorkerTimeout
    \/ StatsUpdate
    \/ StatsAward
    \/ StatsRestart

SpecStats == Init /\ [][NextStats]_vars

\* The same workers with a database that may reject what the stats worker
\* sends it.
NextStatsDb ==
    \/ NextStats
    \/ StatsAwardFails
    \/ StatsUpdateFails

SpecStatsDb == Init /\ [][NextStatsDb]_vars

\* C9: after the stats step of every cycle the UserStats rows are the rows a
\* full rebuild over the posts and links stored at that moment gives.
IncrementalEqualsFullRebuild ==
    [][(stats_pc = "idle" /\ stats_pc' = "award") =>
          user_stats' = update_all_user_stats(user_stats', posts', feed_posts',
                                              Null).tbl]_vars

\* C10: no user holds two UserAchievement rows with the same
\* (achievement_id, feed_id), the NULL feed_id of GLOBAL achievements included.
NoDuplicateAward ==
    \A r1, r2 \in user_achievements :
        (/\ r1.user_did = r2.user_did
         /\ r1.achievement_id = r2.achievement_id
         /\ r1.feed_id = r2.feed_id) => r1 = r2

\* A user holding a GLOBAL award was evaluated again in a later cycle, in
\* which another award was added for them.
GlobalHolderEvaluatedAgain ==
    \E r1, r2 \in user_achievements :
        /\ r1.user_did = r2.user_did
        /\ r1.feed_id = NoFeed
        /\ r1.earned_at < r2.earned_at

\* C11: in every UserStats row latest_post_at is not before first_post_at,
\* after full rebuilds, incremental updates and rebuilds over stored rows.
LatestNotBeforeFirst ==
    \A r \in user_stats : r.latest_post_at >= r.first_post_at

\* A stored row was written again by a later cycle and now covers two posts
\* of different creation times.
StatsRowCoversTwoPosts ==
    /\ stats_cycles = 2
    /\ \E r \in user_stats :
          r.post_count = 2 /\ r.latest_post_at > r.first_post_at

-----------------------------------------------------------------------------
(* The tiers of power_poster: a user's post count grows cycle by cycle.     *)

\* crud.get_in_progress_achievements(db, user_did); progress_percentage is
\* kept as the exact quotient num / den, and the list as a set.
InProgressItem(achievement, feed_id, current_value) ==
    [achievement_id |-> achievement.id, feed_id |-> feed_id,
     current_value |-> current_value, required_value |-> achievement.value,
     progress_percentage |-> [num |-> current_value * 100,
                              den |-> achievement.value]]

get_in_progress_achievements(atbl, stbl, user_did) ==
    LET user_stats_records == {x \in stbl : x.user_did = user_did}
        earned == earned_map(atbl, user_did)
        active == {ach \in Achievements : ach.value > 0}
        per_feed ==
            {InProgressItem(k[1], k[2].feed_id,
                            get_current_value_for_achievement(k[1], k[2])) :
                k \in {q \in active \X user_stats_records :
                         /\ q[1].type = "PER_FEED"
                         /\ <<q[1].id, q[2].feed_id>> \notin earned
                         /\ LET v == get_current_value_for_achievement(q[1], q[2])
                            IN 0 < v /\ v < q[1].value}}
        global ==
            {InProgressItem(ach, NoFeed,
                            get_current_value_for_achievement(ach, user_stats_records)) :
                ach \in {q \in active :
                           /\ q.type = "GLOBAL"
                           /\ <<q.id, NoFeed>> \notin earned
                           /\ LET v == get_current_value_for_achievement(
                                           q, user_stats_records)
                              IN 0 < v /\ v < q.value}}
    IN per_feed \cup global

\* The row the stats query gives for one new post of user a in feed_id,
\* without image or engagement.
OneNewPost(feed_id, t) ==
    [user_did |-> "a", feed_id |-> feed_id, post_count |-> 1,
     total_likes_received |-> 0, total_reposts_received |-> 0,
     total_replies_received |-> 0, image_post_count |-> 0,
     max_post_engagement |-> 0, first_post_at |-> t, latest_post_at |-> t]

PostCountIn(stbl, did, feed_id) ==
    IF \E r \in stbl : r.user_did = did /\ r.feed_id = feed_id
    THEN (CHOOSE r \in stbl : r.user_did = did /\ r.feed_id = feed_id).post_count
    ELSE 0

\* run_stats_worker L575-579 in a cycle whose query finds one new post.
StatsUpdateOnePost(feed_id) ==
    /\ stats_pc = "idle"
    /\ PostCountIn(user_stats, "a", feed_id) < MaxPostCount
    /\ LET r == UpsertMappings(user_stats, {OneNewPost(feed_id, now)},
                               last_processed_timestamp)
       IN /\ user_stats' = r.tbl
          /\ updated_dids' = r.dids
          /\ last_processed_timestamp' = r.latest
    /\ stats_pc' = "award"
    /\ UNCHANGED <<now, users, posts, feed_posts, ingestVars, pollVars,
                   last_upsert, aggVars, user_achievements, stats_cycles,
                   award_failed>>

NextTiers ==
    \/ \E feed_id \in Feeds : StatsUpdateOnePost(feed_id)
    \/ StatsAward

SpecTiers == Init /\ [][NextTiers]_vars

AwardsOf(atbl, did, achievement_id, feed_id) ==
    {r \in atbl : /\ r.user_did = did
                  /\ r.achievement_id = achievement_id
                  /\ r.feed_id = feed_id}

\* C12: at the end of a stats cycle that finds a user's post_count in a feed
\* at 50, the user holds power_poster_ii (id 5) for that feed exactly once and
\* not power_poster_iii (id 6), and the in-progress view lists
\* power_poster_iii for the feed with 50 of 250, 20 percent.
PowerPosterSecondTier ==
    [][(stats_pc = "award" /\ stats_pc' = "idle") =>
          \A r \in user_stats' :
              r.post_count = 50 =>
                 /\ Cardinality(AwardsOf(user_achievements', r.user_did, 5, r.feed_id)) = 1
                 /\ AwardsOf(user_achievements', r.user_did, 6, r.feed_id) = {}
                 /\ \E item \in get_in_progress_achievements(
                                    user_achievements', user_stats', r.user_did) :
                       /\ item.achievement_id = 6
                       /\ item.feed_id = r.feed_id
                       /\ item.current_value = 50
                       /\ item.required_value = 250
                       /\ item.progress_percentage.num
                             = 20 * item.progress_percentage.den
    ]_vars

\* The count of feed A went from 49 to 50 and the cycle has ended.
ReachedFiftyPosts ==
    /\ stats_pc = "idle"
    /\ PostCountIn(user_stats, "a", "A") = 50
    /\ AwardsOf(user_achievements, "a", 5, "A") # {}
    /\ PostCountIn(user_stats, "a", "B") > 0

\* C13: when the metrics request of a polling cycle fails, the cycle retires
\* no post because of it: every post of the batch keeps the polling state and
\* the schedule it had, and so stays active and due for a later cycle.
FailedRequestRetiresNothing ==
    [][(poll_pc = "fetching" /\ poll_pc' = "idle" /\ request_failed') =>
          \A i \in DOMAIN posts_to_poll :
              \A o \in posts : \A r \in posts' :
                  (o.id = posts_to_poll[i].id /\ r.id = o.id) =>
                      /\ r.is_active_for_polling = o.is_active_for_polling
                      /\ r.next_poll_at = o.next_poll_at
    ]_vars

-----------------------------------------------------------------------------
(* The feed listeners: listen_to_contrails_feed, one task per feed.         *)

ListenerStep(feed_id, pc, wait, event) ==
    /\ listener_pc' = [listener_pc EXCEPT ![feed_id] = pc]
    /\ listener_wait' = [listener_wait EXCEPT ![feed_id] = wait]
    /\ listener_event' = [listener_event EXCEPT ![feed_id] = event]

ListenerOnly ==
    UNCHANGED <<now, users, posts, feed_posts, received, delivered,
                post_batch_queue, post_current_batch, feed_post_batch_queue,
                feed_post_current_batch, first_row, last_flush, pollVars,
                last_upsert, aggVars, statsVars>>

\* L552-553: websockets.connect succeeds.
ListenerConnect(feed_id) ==
    /\ listener_pc[feed_id] = "connecting"
    /\ ListenerStep(feed_id, "connected", 0, "connected")
    /\ ListenerOnly

\* L552 and L562-565: websockets.connect raises; sleep(10).
ListenerConnectFails(feed_id) ==
    /\ listener_pc[feed_id] = "connecting"
    /\ ListenerStep(feed_id, "backoff", 10, "connect_error")
    /\ ListenerOnly

\* L555-557: a well-formed message is handed to process_firehose_message.
ListenerReceive(cid, feed_id) ==
    /\ listener_pc[feed_id] = "connected"
    /\ Receive(cid, feed_id)

\* L555-557 with L215-217, L231-233, L253-255: a message without its
\* required fields or with a timestamp that does not parse is dropped.
DroppedKinds == {"missing_fields", "bad_timestamp"}
ListenerDrop(feed_id, kind) ==
    /\ listener_pc[feed_id] = "connected"
    /\ ListenerStep(feed_id, "connected", 0, kind)
    /\ ListenerOnly

\* L556 and L562-565: json.loads raises on a message that is not JSON; the
\* exception leaves the connection's block; sleep(10).
ListenerInvalidJson(feed_id) ==
    /\ listener_pc[feed_id] = "connected"
    /\ ListenerStep(feed_id, "backoff", 10, "invalid_json")
    /\ ListenerOnly

\* L558-559: ConnectionClosedOK; the loop connects again at once.
ListenerClosedOK(feed_id) ==
    /\ listener_pc[feed_id] = "connected"
    /\ ListenerStep(feed_id, "connecting", 0, "closed_ok")
    /\ ListenerOnly

\* A close after which the task ends.
ListenerClosedStops(feed_id) ==
    /\ listener_pc[feed_id] = "connected"
    /\ ListenerStep(feed_id, "stopped", 0, "closed")
    /\ ListenerOnly

\* L560-561: ConnectionClosed with an error; sleep(5).
ListenerClosed(feed_id) ==
    /\ listener_pc[feed_id] = "connected"
    /\ ListenerStep(feed_id, "backoff", 5, "closed")
    /\ ListenerOnly

\* The sleep returns and the while loop connects again.
ListenerSleepDone(feed_id) ==
    /\ listener_pc[feed_id] = "backoff"
    /\ ListenerStep(feed_id, "connecting", 0, "slept")
    /\ ListenerOnly

NextListener ==
    \/ \E feed_id \in Feeds : ListenerConnect(feed_id)
    \/ \E feed_id \in Feeds : ListenerConnectFails(feed_id)
    \/ \E cid \in CIDs \cup {"c4"}, feed_id \in Feeds : ListenerReceive(cid, feed_id)
    \/ \E feed_id \in Feeds, kind \in DroppedKinds : ListenerDrop(feed_id, kind)
    \/ \E feed_id \in Feeds : ListenerInvalidJson(feed_id)
    \/ \E feed_id \in Feeds : ListenerClosedOK(feed_id)
    \/ \E feed_id \in Feeds : ListenerClosed(feed_id)
    \/ \E feed_id \in Feeds : ListenerSleepDone(feed_id)
    \/ PostWorkerGet
    \/ PostWorkerTimeout
    \/ FeedPostWorkerGet
    \/ FeedPostWorkerTimeout

SpecListener == Init /\ [][NextListener]_vars

\* asyncio.sleep returns: a listener in its backoff goes on.
SpecListenerFair ==
    SpecListener /\ \A feed_id \in Feeds : WF_vars(ListenerSleepDone(feed_id))

\* C14: a malformed message (invalid JSON, missing required fields, bad
\* timestamp) is dropped and the listener stays on the same connection: as
\* long as such a message is the last thing a listener met, it is connected.
MalformedKeepsConnection ==
    \A feed_id \in Feeds :
        listener_event[feed_id] \in DroppedKinds \cup {"invalid_json"}
            => listener_pc[feed_id] = "connected"

ListenerBackoffHolds(feed_id, graceful_wait) ==
    /\ listener_pc[feed_id] \in {"connecting", "connected", "backoff"}
    /\ listener_event[feed_id] = "closed_ok" =>
          IF graceful_wait = 0
          THEN listener_pc[feed_id] = "connecting"
          ELSE /\ listener_pc[feed_id] = "backoff"
               /\ listener_wait[feed_id] = graceful_wait
    /\ listener_event[feed_id] = "closed" =>
          /\ listener_pc[feed_id] = "backoff"
          /\ listener_wait[feed_id] \in {5, 10}
    /\ listener_event[feed_id] \in {"connect_error", "invalid_json"} =>
          /\ listener_pc[feed_id] = "backoff"
          /\ listener_wait[feed_id] = 10

\* C16, as claimed: a listener never ends, and it is in its backoff of 5
\* seconds after a graceful close and of 10 seconds after an error before
\* it connects again.
ListenerWaitsFiveOrTen ==
    \A feed_id \in Feeds : ListenerBackoffHolds(feed_id, 5)

\* C16, amended: a listener never ends; it connects again at once after a
\* graceful close, after 5 seconds after an unexpected close and after 10
\* seconds after any other error.
ListenerAlwaysReconnects ==
    \A feed_id \in Feeds :
        /\ [] (/\ ListenerBackoffHolds(feed_id, 0)
               /\ listener_event[feed_id] = "closed" => listener_wait[feed_id] = 5)
        /\ (listener_pc[feed_id] = "backoff") ~> (listener_pc[feed_id] = "connecting")

\* One listener has slept out its backoff and connects again, the other
\* connects again right after a graceful close.
ListenersReconnecting ==
    /\ listener_event["A"] = "slept" /\ listener_pc["A"] = "connecting"
    /\ listener_event["B"] = "closed_ok" /\ listener_pc["B"] = "connecting"

-----------------------------------------------------------------------------
(* Ingestion with a database that may reject a post flush.                  *)

NextFlush ==
    \/ Tick
    \/ \E cid \in CIDs, feed_id \in Feeds : Receive(cid, feed_id)
    \/ \E db_rejects \in BOOLEAN : PostWorkerGetDb(db_rejects)
    \/ \E db_rejects \in BOOLEAN : PostWorkerTimeoutDb(db_rejects)
    \/ \E db_rejects \in BOOLEAN : FeedPostWorkerGetDb(db_rejects)
    \/ \E db_rejects \in BOOLEAN : FeedPostWorkerTimeoutDb(db_rejects)

SpecFlush == Init /\ [][NextFlush]_vars

\* asyncio.wait_for(queue.get(), timeout=BATCH_INTERVAL_SECONDS) returns an
\* item that is there and raises TimeoutError when none came.
SpecFlushFair ==
    /\ SpecFlush
    /\ WF_vars(\E db_rejects \in BOOLEAN : PostWorkerGetDb(db_rejects))
    /\ WF_vars(\E db_rejects \in BOOLEAN : PostWorkerTimeoutDb(db_rejects))
    /\ WF_vars(\E db_rejects \in BOOLEAN : FeedPostWorkerGetDb(db_rejects))
    /\ WF_vars(\E db_rejects \in BOOLEAN : FeedPostWorkerTimeoutDb(db_rejects))

UserDids(tbl) == {u.did : u \in tbl}

\* C15: a post flush the database rejects persists no Post, no placeholder
\* User and no FeedPost (none is queued for linking either), the batch is
\* dropped from the worker, and the worker takes the next batch as before.
RejectedFlushPersistsNothing ==
    [][(last_flush'.seq # last_flush.seq /\ ~last_flush'.ok) =>
          /\ posts' = posts
          /\ UserDids(users') = UserDids(users)
          /\ feed_posts' = feed_posts
          /\ feed_post_batch_queue' = feed_post_batch_queue
          /\ post_current_batch' = <<>>
          /\ Len(post_batch_queue') <= Len(post_batch_queue)]_vars

\* A flush was rejected, and a later flush of the same worker went through.
FlushedAfterRejection ==
    /\ last_flush.failed >= 1
    /\ last_flush.ok
    /\ last_flush.seq >= 2
    /\ posts # {}

-----------------------------------------------------------------------------
(* The polling worker alone, on one post, with the clock moving from one    *)
(* due time to the next.                                                    *)

\* run_polling_worker sleeps WORKER_LOOP_INTERVAL_SECONDS (30 s, 25 ticks)
\* between cycles: a post is selected up to that long after it became due.
PollDelays == {0, 1, 25}

\* The post c1, created at 0 and ingested at 0.
InitSchedule ==
    /\ now = 0 /\ InitWorkers /\ InitHistory
    /\ users = {} /\ feed_posts = {} /\ aggregates = {}
    /\ user_stats = {} /\ user_achievements = {}
    /\ posts = upsert_posts_batch({}, <<PostCreate("c1", 0)>>, 0).tbl

\* The worker's next cycle starts `delay` after the post became due.
SleepUntilDue(delay) ==
    /\ poll_pc = "idle"
    /\ \E r \in posts :
          /\ r.is_active_for_polling
          /\ r.next_poll_at # Null
          /\ r.next_poll_at + delay > now
          /\ r.next_poll_at + delay <= MaxPollHours * TicksPerHour
          /\ now' = r.next_poll_at + delay
    /\ UNCHANGED <<users, posts, feed_posts, ingestVars, pollVars, last_upsert,
                   aggVars, statsVars>>

NextSchedule ==
    \/ \E delay \in PollDelays : SleepUntilDue(delay)
    \/ PollBegin
    \/ PollCommit

SpecSchedule == InitSchedule /\ [][NextSchedule]_vars

NextConfig ==
    \/ NextSchedule
    \/ PollNothingDue
    \/ \E file \in ConfigFiles : WriteConfigFile(file)

SpecConfig == InitSchedule /\ [][NextConfig]_vars

\* C17: a reload of the polling-config file that fails leaves the
\* configuration in memory as it was before the reload.
FailedReloadKeepsConfig ==
    [][config_event' = "unparsable" => polling_config' = polling_config]_vars

\* C18: after the load of an invalid file the configuration in memory is the
\* built-in default, which names the hard stop and the tiers.
InvalidFileFallsBackToDefault ==
    config_event \in {"unparsable", "incomplete"} =>
        /\ polling_config = default_config
        /\ CompleteConfig(polling_config)

\* The row of the table that a loaded Post object stands for.
RowOf(tbl, o) == CHOOSE r \in tbl : r.id = o.id

\* C19: under the default schedule, a post whose score was at most 3 at
\* every poll is never rescheduled by the tiered schedule: a poll past the
\* 30-minute checkpoint that finds such a score retires the post.
LowScoreNeverTiered ==
    [][(poll_pc = "fetching" /\ poll_pc' = "idle" /\ api_monotone'
        /\ polling_config = default_config) =>
          \A i \in DOMAIN posts_to_poll :
             LET r == RowOf(posts', posts_to_poll[i])
             IN (/\ poll_now - r.created_at > fourth_poll_age
                 /\ r.engagement_score <= fifth_poll_elimination_score_threshold)
                    => ~r.is_active_for_polling]_vars

\* C20: a poll that sees a post at the 30-minute checkpoint (past the
\* 20-minute one, not past the 60-minute one) with 0 likes, 0 reposts and 0
\* replies retires it: is_active_for_polling false, next_poll_at null.
ZeroScoreRetiredAtThirtyMinutes ==
    [][(poll_pc = "fetching" /\ poll_pc' = "idle") =>
          \A i \in DOMAIN posts_to_poll :
             LET r == RowOf(posts', posts_to_poll[i])
                 age == poll_now - posts_to_poll[i].created_at
             IN (/\ age > third_poll_age /\ age <= fifth_poll_age
                 /\ last_answer'[i].present
                 /\ last_answer'[i].likeCount = 0
                 /\ last_answer'[i].repostCount = 0
                 /\ last_answer'[i].replyCount = 0)
                    => /\ ~r.is_active_for_polling
                       /\ r.next_poll_at = Null]_vars

\* A post polled at the age of exactly 30 minutes, reported with no
\* engagement, and retired.
RetiredAtThirtyMinutes ==
    /\ poll_pc = "idle"
    /\ last_answer # <<>>
    /\ last_answer[1].present
    /\ last_answer[1].likeCount + last_answer[1].repostCount
          + last_answer[1].replyCount = 0
    /\ \E r \in posts :
          /\ poll_now - r.created_at = fourth_poll_age
          /\ ~r.is_active_for_polling
          /\ r.next_poll_at = Null

-----------------------------------------------------------------------------
(* The polling worker on a post that reaches the hard stop: the post c1,    *)
(* created at 0, was rescheduled by the last tier and is polled around the  *)
(* age of hard_stop_hours.                                                  *)

InitHardStop ==
    /\ InitWorkers /\ InitHistory
    /\ users = {} /\ feed_posts = {} /\ aggregates = {}
    /\ user_stats = {} /\ user_achievements = {}
    /\ \E due \in (hard_stop_hours * TicksPerHour - MaxLateness)
                      .. (hard_stop_hours * TicksPerHour) :
          /\ posts = {[r EXCEPT !.next_poll_at = due] :
                         r \in upsert_posts_batch({}, <<PostCreate("c1", 0)>>, 0).tbl}
          /\ now \in due .. (hard_stop_hours * TicksPerHour + MaxLateness)

SpecHardStop == InitHardStop /\ [][PollBegin \/ PollCommit]_vars

\* C21: under the default configuration a poll of a post aged exactly
\* hard_stop_hours that the API still reports does not retire it, and a poll
\* of a post older than that retires it whatever the reported counts.
HardStopIsExclusive ==
    [][(poll_pc = "fetching" /\ poll_pc' = "idle") =>
          \A i \in DOMAIN posts_to_poll :
             LET r == RowOf(posts', posts_to_poll[i])
                 age == poll_now - posts_to_poll[i].created_at
             IN /\ (age = hard_stop_hours * TicksPerHour /\ last_answer'[i].present)
                      => /\ r.is_active_for_polling
                         /\ r.next_poll_at > poll_now
                /\ age > hard_stop_hours * TicksPerHour
                      => /\ ~r.is_active_for_polling
                         /\ r.next_poll_at = Null]_vars

\* A post was polled at the age of exactly hard_stop_hours, reported with a
\* like, and is still scheduled.
PolledAtHardStop ==
    /\ poll_pc = "idle"
    /\ last_answer # <<>>
    /\ last_answer[1].present
    /\ \E r \in posts :
          /\ poll_now - r.created_at = hard_stop_hours * TicksPerHour
          /\ r.is_active_for_polling
          /\ r.like_count = 1

\* C22: a record dated at most 5 minutes after the time it is received is
\* taken and queued; a record dated later than that is in no queue, no batch,
\* no Post row and, through its post, no FeedPost row.
FutureDatedNeverStored ==
    /\ \A r \in posts : r.created_at <= r.ingested_at + FiveMinutes
    /\ \A i \in DOMAIN post_batch_queue :
          post_batch_queue[i].post.created_at <= now + FiveMinutes
    /\ \A i \in DOMAIN post_current_batch :
          post_current_batch[i].post.created_at <= now + FiveMinutes
    /\ \A l \in feed_posts : \E r \in posts : r.id = l.post_id

\* A record dated exactly 5 minutes after the time of its ingestion is
\* stored and linked to a feed.
SkewedPostStored ==
    \E r \in posts :
        /\ r.created_at = r.ingested_at + FiveMinutes
        /\ \E l \in feed_posts : l.post_id = r.id

-----------------------------------------------------------------------------
(* Pure functions, applied to inputs drawn from bounded sets: the call and  *)
(* its result are kept in `evaluated`.  A call does not depend on the calls *)
(* before it, so each behaviour makes one.                                  *)

\* A call leaves the tables and the workers alone.
CallOnly ==
    UNCHANGED <<now, users, posts, feed_posts, ingestVars, pollVars, last_upsert,
                aggregates, agg_pc, initially_prominent, agg_writes, last_cycle,
                refresh, statsVars>>

\* achievements/definitions.py RARITY_TIERS; thresholds in tenths of 1%.
RARITY_TIERS ==
    << [name |-> "Mythic", threshold |-> 1],
       [name |-> "Legendary", threshold |-> 10],
       [name |-> "Diamond", threshold |-> 20],
       [name |-> "Platinum", threshold |-> 50],
       [name |-> "Gold", threshold |-> 100],
       [name |-> "Silver", threshold |-> 250],
       [name |-> "Bronze", threshold |-> 1000] >>

\* A lookup that compares with < instead of <=.
RarityTierStrict(percentage) ==
    LET hits == {i \in DOMAIN RARITY_TIERS : percentage < RARITY_TIERS[i].threshold}
    IN IF hits = {} THEN RARITY_TIERS[Len(RARITY_TIERS)]
       ELSE RARITY_TIERS[CHOOSE i \in hits : \A j \in hits : i <= j]

\* achievements/definitions.py get_rarity_tier_from_percentage: the for loop
\* returns at the first tier with percentage <= threshold, else the last tier.
get_rarity_tier_from_percentage(percentage) ==
    LET hits == {i \in DOMAIN RARITY_TIERS : percentage <= RARITY_TIERS[i].threshold}
    IN IF hits = {} THEN RARITY_TIERS[Len(RARITY_TIERS)]
       ELSE RARITY_TIERS[CHOOSE i \in hits : \A j \in hits : i <= j]

CallRarity(percentage) ==
    /\ evaluated.fn = "none"
    /\ evaluated' = [fn |-> "rarity", input |-> percentage,
                     output |-> get_rarity_tier_from_percentage(percentage)]
    /\ CallOnly

SpecRarity ==
    Init /\ [][\E percentage \in 0..MaxPermille : CallRarity(percentage)]_vars

\* C24: for every percentage the tier returned is one of the seven tiers,
\* never null: the first in the order Mythic 0.1, Legendary 1, Diamond 2,
\* Platinum 5, Gold 10, Silver 25, Bronze 100 whose threshold is greater than
\* or equal to the percentage (Bronze when the percentage is above 100).
RarityIsFirstTierAtOrAbove ==
    evaluated.fn = "rarity" =>
        LET names == <<"Mythic", "Legendary", "Diamond", "Platinum", "Gold",
                       "Silver", "Bronze">>
            limits == <<1, 10, 20, 50, 100, 250, 1000>>
            k == CHOOSE i \in 1..7 : names[i] = evaluated.output.name
        IN /\ evaluated.output.name \in {names[i] : i \in 1..7}
           /\ evaluated.output.threshold = limits[k]
           /\ \A i \in 1..(k - 1) : limits[i] < evaluated.input
           /\ evaluated.input <= limits[k] \/ (k = 7 /\ evaluated.input > 1000)

\* 10% was looked up and is Gold.
TenPercentIsGold ==
    /\ evaluated.fn = "rarity"
    /\ evaluated.input = 100
    /\ evaluated.output.name = "Gold"

\* Python's None in a location field.
None == "None"

\* geo_aggregates.LOCATION_HASHTAG_MAP, loaded from
\* geo_hashtags_mapping.json: two city tags, a region tag, a country tag; the
\* tag "cats" is not in the map.  Tags are taken as normalised by L58.
Hashtags == {"nyc", "la", "ny", "usa", "cats"}
LOCATION_HASHTAG_MAP ==
    [tag \in {"nyc", "la", "ny", "usa"} |->
        CASE tag = "nyc" -> [city |-> "New York City", region |-> "New York",
                             country |-> "USA"]
          [] tag = "la" -> [city |-> "Los Angeles", region |-> "California",
                            country |-> "USA"]
          [] tag = "ny" -> [city |-> None, region |-> "New York", country |-> "USA"]
          [] tag = "usa" -> [city |-> None, region |-> None, country |-> "USA"]]

\* The loop of _get_location_from_hashtags, L54-81, from the i-th hashtag on:
\* loc is the inferred city, region and country so far, cities the distinct
\* cities found so far.
RECURSIVE InferLocationFrom(_, _, _, _)
InferLocationFrom(hashtags, i, loc, cities) ==
    IF i > Len(hashtags) THEN [loc |-> loc, cities |-> cities]
    ELSE IF hashtags[i] \notin DOMAIN LOCATION_HASHTAG_MAP
    THEN InferLocationFrom(hashtags, i + 1, loc, cities)
    ELSE LET d == LOCATION_HASHTAG_MAP[hashtags[i]]
             found == IF d.city # None THEN cities \cup {d.city} ELSE cities
             next ==
                IF d.city # None /\ loc.city = None
                THEN [city |-> d.city, region |-> d.region, country |-> d.country]
                ELSE IF loc.city = None /\ d.region # None /\ loc.region = None
                THEN [loc EXCEPT !.region = d.region, !.country = d.country]
                ELSE IF /\ loc.city = None /\ loc.region = None
                        /\ d.country # None /\ loc.country = None
                THEN [loc EXCEPT !.country = d.country]
                ELSE loc
         IN InferLocationFrom(hashtags, i + 1, next, found)

NoLocation == [city |-> None, region |-> None, country |-> None]

\* An inference in which the first city found wins.
LocationFirstCityWins(hashtags) ==
    InferLocationFrom(hashtags, 1, NoLocation, {}).loc

\* geo_aggregates._get_location_from_hashtags; NoLocation stands for the
\* None it returns.
get_location_from_hashtags(hashtags) ==
    LET r == InferLocationFrom(hashtags, 1, NoLocation, {})
    IN IF Cardinality(r.cities) > 1 THEN NoLocation ELSE r.loc

CallLocation(hashtags) ==
    /\ evaluated.fn = "none"
    /\ evaluated' = [fn |-> "location", input |-> hashtags,
                     output |-> get_location_from_hashtags(hashtags)]
    /\ CallOnly

SpecLocation ==
    Init /\ [][\E n \in 0..MaxTags : \E hashtags \in [1..n -> Hashtags] :
                  CallLocation(hashtags)]_vars

\* C25: hashtags that map to more than one distinct city yield no location
\* at all, in whatever order they stand and whatever region or country tags
\* stand with them: the post counts for no city, no region and no country.
ConflictingCitiesYieldNoLocation ==
    evaluated.fn = "location" =>
        LET tags == {evaluated.input[i] : i \in DOMAIN evaluated.input}
        IN {"nyc", "la"} \subseteq tags =>
              /\ evaluated.output.city = None
              /\ evaluated.output.region = None
              /\ evaluated.output.country = None

\* A post tagged with a country tag and then two different city tags.
CountryAndTwoCities ==
    /\ evaluated.fn = "location"
    /\ evaluated.input = <<"usa", "la", "nyc">>
    /\ evaluated.output = NoLocation

\* user_aggregates._calculate_streaks_base_query on user_daily_posts, the
\* distinct (author_did, post_date) rows of a feed.  daily_gaps: the days
\* since the author's previous row (LAG with the row's own date as default,
\* so 0 on the first); streak_groups: streak_id is the running count of the
\* rows with gap > max_gap; streak_lengths: one row per (author, streak_id).
StreaksWith(user_daily_posts, max_gap) ==
    LET gap(row) ==
           LET before == {x \in user_daily_posts :
                             x.author_did = row.author_did /\ x.post_date < row.post_date}
           IN IF before = {} THEN 0
              ELSE row.post_date - SetMax({x.post_date : x \in before})
        streak_id(row) ==
           Cardinality({x \in user_daily_posts :
                           /\ x.author_did = row.author_did
                           /\ x.post_date <= row.post_date
                           /\ gap(x) > max_gap})
        group(row) == {x \in user_daily_posts :
                          x.author_did = row.author_did /\ streak_id(x) = streak_id(row)}
    IN {[author_did |-> row.author_did, streak_id |-> streak_id(row),
         streak_length |-> Cardinality(group(row)),
         last_post_date |-> SetMax({x.post_date : x \in group(row)})]
        : row \in user_daily_posts}

\* Streaks that go on over one missed day.
StreaksOverOneMissedDay(user_daily_posts) == StreaksWith(user_daily_posts, 2)

\* L57: case((daily_gaps.c.gap > 1, 1), else_=0)
calculate_streaks_base_query(user_daily_posts) == StreaksWith(user_daily_posts, 1)

CallStreaks(user_daily_posts) ==
    /\ evaluated.fn = "none"
    /\ evaluated' = [fn |-> "streaks", input |-> user_daily_posts,
                     output |-> calculate_streaks_base_query(user_daily_posts)]
    /\ CallOnly

SpecStreaks ==
    Init /\ [][\E pairs \in SUBSET ({"a", "b"} \X (0..MaxDay)) :
                  CallStreaks({[author_did |-> pr[1], post_date |-> pr[2]] : pr \in pairs})]_vars

\* C26: the streaks of a user are the maximal runs of consecutive days among
\* the user's posting days, each run once with its length: days d and d+1
\* are one streak of length 2, days d and d+2 alone are two streaks.
StreaksAreMaximalRuns ==
    evaluated.fn = "streaks" =>
        LET days(did) == {x.post_date : x \in {y \in evaluated.input : y.author_did = did}}
            runs == {run \in {"a", "b"} \X (0..MaxDay) \X (0..MaxDay) :
                        /\ run[2] <= run[3]
                        /\ \A d \in run[2]..run[3] : d \in days(run[1])
                        /\ (run[2] - 1) \notin days(run[1])
                        /\ (run[3] + 1) \notin days(run[1])}
            found == {<<r.author_did, r.last_post_date - r.streak_length + 1,
                        r.last_post_date>> : r \in evaluated.output}
        IN /\ found = runs
           /\ Cardinality(evaluated.output) = Cardinality(runs)

\* A user posted on days 0 and 1 and on day 3: a streak of 2 and a streak
\* of 1.
StreakOfTwoAndGap ==
    /\ evaluated.fn = "streaks"
    /\ {x.post_date : x \in {y \in evaluated.input : y.author_did = "a"}} = {0, 1, 3}
    /\ {<<r.streak_length, r.last_post_date>> :
           r \in {y \in evaluated.output : y.author_did = "a"}} = {<<2, 1>>, <<1, 3>>}

\* stats_worker.ACHIEVEMENT_DEFINITIONS: the keys, in the order of the dict.
ACHIEVEMENT_DEFINITIONS ==
    <<"icebreaker_i", "image_poster_i", "global_image_poster_i", "power_poster_i">>

\* The loop of seed_achievements, L235-249, from the i-th definition on: a
\* row is added for a key that no row of the table has.
RECURSIVE SeedFrom(_, _)
SeedFrom(tbl, i) ==
    IF i > Len(ACHIEVEMENT_DEFINITIONS) THEN tbl
    ELSE IF \E r \in tbl : r.key = ACHIEVEMENT_DEFINITIONS[i]
    THEN SeedFrom(tbl, i + 1)
    ELSE SeedFrom(tbl \cup {[id |-> Cardinality(tbl) + 1,
                             key |-> ACHIEVEMENT_DEFINITIONS[i],
                             name |-> "from code", is_active |-> TRUE]}, i + 1)

\* A seeding that writes the definition over the rows that exist.
SeedOverwrites(tbl) ==
    SeedFrom({[r EXCEPT !.name = "from code", !.is_active = TRUE] : r \in tbl}, 1)

\* stats_worker.seed_achievements: table achievements after the commit.
seed_achievements(tbl) == SeedFrom(tbl, 1)

\* Table achievements as earlier runs and the admin UI may have left it: rows
\* for some of the keys, numbered in the order of the definitions, some of
\* them renamed and switched off by an admin.
AchievementTables ==
    {{[id |-> Cardinality({j \in 1..i : ACHIEVEMENT_DEFINITIONS[j] \in present}),
       key |-> ACHIEVEMENT_DEFINITIONS[i],
       name |-> IF ACHIEVEMENT_DEFINITIONS[i] \in edited
                THEN "edited" ELSE "from code",
       is_active |-> ACHIEVEMENT_DEFINITIONS[i] \notin edited]
      : i \in {j \in DOMAIN ACHIEVEMENT_DEFINITIONS :
                  ACHIEVEMENT_DEFINITIONS[j] \in present}}
     : present \in SUBSET Range(ACHIEVEMENT_DEFINITIONS),
       edited \in SUBSET Range(ACHIEVEMENT_DEFINITIONS)}

\* The worker starts: seed_achievements runs on the table as it is.
CallSeed(tbl) ==
    /\ evaluated.fn = "none"
    /\ evaluated' = [fn |-> "seed", run |-> 1, input |-> tbl,
                     output |-> seed_achievements(tbl)]
    /\ CallOnly

\* The worker starts again.
CallSeedAgain ==
    /\ evaluated.fn = "seed"
    /\ evaluated.run = 1
    /\ evaluated' = [fn |-> "seed", run |-> 2, input |-> evaluated.output,
                     output |-> seed_achievements(evaluated.output)]
    /\ CallOnly

SpecSeed ==
    Init /\ [][(\E tbl \in AchievementTables : CallSeed(tbl)) \/ CallSeedAgain]_vars

\* C27: seed_achievements keeps every row of the table as it is and adds
\* one row for each definition whose key no row has, and nothing else; a
\* second run adds nothing.
SeedAddsOnlyMissingKeys ==
    evaluated.fn = "seed" =>
        LET added == evaluated.output \ evaluated.input
            missing == Range(ACHIEVEMENT_DEFINITIONS) \ {r.key : r \in evaluated.input}
        IN /\ evaluated.input \subseteq evaluated.output
           /\ {r.key : r \in added} = missing
           /\ Cardinality(added) = Cardinality(missing)
           /\ evaluated.run = 2 => evaluated.output = evaluated.input

\* A second run on a table that holds a row an admin edited and a row the
\* first run added.
SeededTwice ==
    /\ evaluated.fn = "seed"
    /\ evaluated.run = 2
    /\ \E r \in evaluated.output : r.name = "edited"
    /\ \E r \in evaluated.output : r.name = "from code" /\ r.id > 1

ProfileRefreshKeepsProminence ==
    [][last_upsert'.seq # last_upsert.seq =>
          \A r \in users : \A r2 \in users' :
              r2.did = r.did => r2.is_prominent = r.is_prominent
    ]_vars

\* The (post, feed) pairs waiting in the feed-post queue or in the batch of
\* the feed-post worker, and the pairs table feed_posts holds.
PendingLinks ==
    {<<fp.post_id, fp.feed_id>> : fp \in Range(feed_post_batch_queue)
                                        \cup Range(feed_post_current_batch)}
StoredLinks == {<<fp.post_id, fp.feed_id>> : fp \in feed_posts}

\* C30: every (post, feed) pair that a committed post flush enqueued gets
\* its FeedPost row, also when a feed-post flush fails: a pair that waits
\* for its row is not dropped before table feed_posts holds it.
CommittedPostGetsItsFeedLinks ==
    [][\A l \in PendingLinks : l \in PendingLinks' \cup StoredLinks']_vars

\* C31: every user whose stats a committed update changed is evaluated for
\* achievements against them, in that cycle or, when its award step failed,
\* in a later one: between cycles, a user left unevaluated by a failed award
\* step is among the users the next cycle evaluates.
ChangedStatsGetEvaluated ==
    stats_pc = "idle" =>
        award_failed \subseteq
            update_all_user_stats(user_stats, posts, feed_posts,
                                  last_processed_timestamp).dids

\* C32: after a successful stats cycle every user it evaluated holds the
\* icebreaker achievement (id 1) for each feed in which the user has made at
\* least one post, however many posts the row counts.
IcebreakerForEveryPoster ==
    [][(stats_pc = "award" /\ stats_cycles' = stats_cycles + 1) =>
          \A r \in user_stats' :
              (r.user_did \in updated_dids /\ r.post_count >= 1) =>
                  AwardsOf(user_achievements', r.user_did, 1, r.feed_id) # {}
    ]_vars

-----------------------------------------------------------------------------
(* ingestion_worker.periodic_did_refresh_scheduler: every minute the        *)
(* prominent users due, up to 100 placeholder users and up to 50 stale      *)
(* users are sent to resolve_and_update_profiles.                           *)

PLACEHOLDER_LIMIT == 2        \* .limit(100) of the placeholder SELECT
StaleAfter == 30 * 24 * TicksPerHour

\* L585-589: the model's rows carry no last_prominent_refresh_check; every
\* prominent user counts as due.
prominent_dids_to_refresh(tbl) == {r.did : r \in {x \in tbl : x.is_prominent}}

\* A SELECT that returns every placeholder row.
SelectEveryPlaceholder(tbl) == {{r.did : r \in {x \in tbl : IsUnknown(x.handle)}}}

\* L592-593: SELECT did FROM users WHERE handle LIKE 'unknown.%' LIMIT 100
\* has no ORDER BY; the database may return any 100 of the rows.
placeholder_selections(tbl) ==
    LET all == {r.did : r \in {x \in tbl : IsUnknown(x.handle)}}
    IN {S \in SUBSET all : Cardinality(S) = Min(PLACEHOLDER_LIMIT, Cardinality(all))}

\* L596-601; the limit of 50 is not reached in the model.
stale_dids_to_refresh(tbl, t) ==
    {r.did : r \in {x \in tbl : x.last_updated < t - StaleAfter /\ ~x.is_prominent}}

\* What getProfiles answers for the DIDs asked: the profile of every DID the
\* network knows, under the handle that is the DID's own.
RECURSIVE NetworkProfiles(_)
NetworkProfiles(dids) ==
    IF dids = {} THEN <<>>
    ELSE LET d == CHOOSE x \in dids : TRUE
         IN <<UserCreate(d, RealHandle(d))>> \o NetworkProfiles(dids \ {d})

\* One iteration of the loop, L579-620.
RefreshCycle ==
    /\ \E S \in placeholder_selections(users) :
          LET dids_to_refresh == prominent_dids_to_refresh(users) \cup S
                                    \cup stale_dids_to_refresh(users, now)
          IN /\ \E profiles \in {NetworkProfiles(dids_to_refresh
                                                    \cap refresh.resolvable)} :
                   users' = UpsertUsersBatch(users, profiles, now).tbl
             /\ refresh' = [refresh EXCEPT !.parity = 1 - @, !.selected = S]
    /\ UNCHANGED <<now, posts, feed_posts, ingestVars, pollVars, last_upsert,
                   aggregates, agg_pc, initially_prominent, agg_writes,
                   last_cycle, evaluated, statsVars>>

\* _flush_post_batch creates the placeholder of an author not seen before.
PlaceholderArrives(did) ==
    /\ \A r \in users : r.did # did
    /\ users' = CreatePlaceholderUsers(users, {did}, now)
    /\ UNCHANGED <<now, posts, feed_posts, ingestVars, pollVars, last_upsert,
                   aggVars, statsVars>>

InitRefresh ==
    /\ now = 0 /\ InitTables /\ InitWorkers /\ InitGhosts
    /\ \E known \in SUBSET DIDs :
          refresh = [resolvable |-> known, parity |-> 0, selected |-> {}]

NextRefresh ==
    \/ RefreshCycle
    \/ \E did \in DIDs : PlaceholderArrives(did)

SpecRefresh == InitRefresh /\ [][NextRefresh]_vars

\* The scheduler loops for ever: asyncio.sleep, then the next iteration.
SpecRefreshFair == SpecRefresh /\ WF_vars(RefreshCycle)

\* C33: every placeholder user whose profile the network returns is
\* eventually selected by the refresh scheduler and resolved to its real
\* handle, also when more placeholders exist than the limit of one cycle
\* and some of them can never be resolved.
PlaceholderEventuallyResolved ==
    \A did \in DIDs :
        (/\ did \in refresh.resolvable
         /\ \E r \in users : r.did = did /\ IsUnknown(r.handle))
        ~> (\E r \in users : r.did = did /\ r.handle = RealHandle(did))

\* C34: a batch of profiles of different DIDs whose handles are real and
\* pairwise distinct is stored whole by upsert_users_batch, without a
\* failure on the uniqueness of handle, also when a DID of the batch takes
\* the handle stored on another DID of the batch.
DistinctHandlesBatchIsStored ==
    LET batch == last_upsert.batch
    IN (/\ last_upsert.seq > 0
        /\ \A i \in DOMAIN batch : batch[i].handle.kind = "real"
        /\ \A i, j \in DOMAIN batch :
              i # j => /\ batch[i].did # batch[j].did
                       /\ batch[i].handle # batch[j].handle)
       => /\ last_upsert.ok
          /\ \A i \in DOMAIN batch :
                \E r \in users : r.did = batch[i].did /\ r.handle = batch[i].handle

\* C35: a polling cycle that raises before its commit is rolled back whole:
\* every Post keeps its counters, score, next_poll_at and
\* is_active_for_polling, the posts that were due are due again, and the
\* worker is back at the start of its loop.
RaisedCycleChangesNothing ==
    [][poll_raised'.n # poll_raised.n =>
          /\ posts' = posts
          /\ DuePosts(posts', now') = DuePosts(posts, now)
          /\ poll_pc' = "idle"
    ]_vars

\* A cycle raised, and the next cycle has selected the same post again.
RaisedCyclePolledAgain ==
    /\ poll_raised.n = 1
    /\ poll_pc = "fetching"
    /\ {posts_to_poll[i].id : i \in DOMAIN posts_to_poll} = poll_raised.ids

-----------------------------------------------------------------------------
(* The polling worker from the ingestion of two posts to their retirement:  *)
(* no message arrives any more, every cycle commits, the clock moves to the *)
(* next due time, and the configuration file may be rewritten.              *)

\* c1 and c2, ingested at 0 with the same first poll time.
InitRetire ==
    /\ now = 0 /\ InitWorkers /\ InitHistory
    /\ users = {} /\ feed_posts = {} /\ aggregates = {}
    /\ user_stats = {} /\ user_achievements = {}
    /\ posts = upsert_posts_batch({}, <<PostCreate("c1", 0), PostCreate("c2", 0)>>,
                                  0).tbl

\* The earliest next_poll_at of the active posts.
NextDue(tbl) ==
    SetMin({r.next_poll_at : r \in {q \in tbl : /\ q.is_active_for_polling
                                                /\ q.next_poll_at # Null}})

\* run_polling_worker, L294-296: nothing is due, the worker sleeps.  Its
\* next cycle with a due post starts when the post becomes due, or five
\* minutes later (the worker was busy or down) in MaxLateCycles cycles.
WaitForDue(delay) ==
    /\ poll_pc = "idle"
    /\ DuePosts(posts, now) = {}
    /\ \E r \in posts : r.is_active_for_polling /\ r.next_poll_at # Null
    /\ NextDue(posts) + delay <= MaxRetireHours * TicksPerHour
    /\ delay > 0 => late_cycles < MaxLateCycles
    /\ late_cycles' = IF delay > 0 THEN late_cycles + 1 ELSE late_cycles
    /\ now' = NextDue(posts) + delay
    /\ UNCHANGED <<users, posts, feed_posts, ingestVars, poll_pc, poll_now,
                   posts_to_poll, reported, api_monotone, request_failed,
                   last_answer, poll_raised, configVars, last_upsert, aggVars,
                   statsVars>>

NextRetire ==
    \/ \E delay \in {0, FiveMinutes} : WaitForDue(delay)
    \/ PollBegin
    \/ PollCommit
    \/ config_file # JsonFile(custom_config) /\ WriteConfigFile(JsonFile(custom_config))

SpecRetire == InitRetire /\ [][NextRetire]_vars

\* The worker loops for ever, and every cycle it starts answers and commits.
SpecRetireFair ==
    /\ SpecRetire
    /\ WF_vars(\E delay \in {0, FiveMinutes} : WaitForDue(delay))
    /\ WF_vars(PollBegin)
    /\ WF_vars(PollCommit)

\* C36: with no further ingestion and every polling cycle committing, each
\* post that is active for polling is retired in the end, and a committed
\* poll of a post older than the configured hard_stop_hours retires it,
\* also when more posts are due than one cycle takes.
EveryActivePostIsRetired ==
    /\ <>(\A r \in posts : ~r.is_active_for_polling)
    /\ [][(poll_pc = "fetching" /\ poll_pc' = "idle") =>
             \A i \in DOMAIN posts_to_poll :
                (poll_now - posts_to_poll[i].created_at
                    > RuleGet(polling_config.rules, "hard_stop_hours",
                              hard_stop_hours) * TicksPerHour)
                => ~RowOf(posts', posts_to_poll[i]).is_active_for_polling]_vars

\* A post older than the hard stop was polled, reported by the API and
\* retired while another post was due and waits for the next cycle.
RetiredWhileAnotherWaits ==
    /\ poll_pc = "idle"
    /\ last_answer # <<>>
    /\ last_answer[1].present
    /\ DuePosts(posts, now) # {}
    /\ \E r \in posts :
          /\ ~r.is_active_for_polling
          /\ r.like_count = last_answer[1].likeCount
          /\ poll_now - r.created_at
                > RuleGet(polling_config.rules, "hard_stop_hours", hard_stop_hours)
                     * TicksPerHour
          /\ \E q \in DuePosts(posts, now) : q.next_poll_at <= poll_now

\* The FeedPostCreate items waiting in the queue or in the batch of the
\* feed-post worker.
QueuedFeedPosts == Range(feed_post_batch_queue) \cup Range(feed_post_current_batch)

\* C37: every FeedPost row, and every FeedPost item waiting to be written,
\* references a Post row the table holds, also after a post flush that the
\* database rejected.
FeedPostReferencesStoredPost ==
    \A fp \in feed_posts \cup QueuedFeedPosts : \E p \in posts : p.id = fp.post_id

\* The last post flush failed and its post is not stored, while the link of
\* a post flushed before it is written or waits to be written.
LinksAroundFailedFlush ==
    /\ last_flush.seq > 1
    /\ ~last_flush.ok
    /\ \E c \in last_flush.cids : ~HasCid(posts, c)
    /\ feed_posts \cup QueuedFeedPosts # {}

-----------------------------------------------------------------------------
(* The tier runs with an award step that the database may reject.           *)

SpecTiersDb == Init /\ [][NextTiers \/ StatsAwardFails]_vars

\* The PER_FEED achievements with the operator >= on one stat, lowest
\* threshold first: a tiered series of _create_tiered_achievements.
LowerTiers(achievement) ==
    {x \in Achievements : /\ x.type = "PER_FEED"
                          /\ achievement.type = "PER_FEED"
                          /\ x.operator = ">=" /\ achievement.operator = ">="
                          /\ x.stat = achievement.stat
                          /\ x.value < achievement.value}

LinkedPosts(did, feed_id) ==
    {p \in posts : /\ p.author_did = did
                   /\ \E fp \in feed_posts : fp.post_id = p.id /\ fp.feed_id = feed_id}

\* C39: whatever cycles, failed cycles and restarts of the stats worker came
\* before, post_count of a UserStats row is at most the number of the user's
\* posts linked to the feed of the row: no post is counted twice.
NoPostCountedTwice ==
    \A r \in user_stats :
        r.post_count <= Cardinality(LinkedPosts(r.user_did, r.feed_id))

\* An earlier cycle counted the first post of user a in feed A (icebreaker_i
\* was awarded for it); the update of a later cycle has counted the second.
SecondPostCountedOnce ==
    /\ stats_pc = "award"
    /\ stats_cycles >= 1
    /\ last_processed_timestamp # Null
    /\ updated_dids = {"a"}
    /\ AwardsOf(user_achievements, "a", 1, "A") # {}
    /\ PostCountIn(user_stats, "a", "A") = 2
    /\ Cardinality(LinkedPosts("a", "A")) = 2

====
